---- MODULE Spec2Model ----
(***************************************************************************)
(* CodeBox-AI: the execution service (codeboxai/service.py), the kernel    *)
(* manager that owns one container and one Jupyter client per session      *)
(* (codeboxai/kernel_manager.py) and the HTTP read side                    *)
(* (codeboxai/main.py).                                                    *)
(*                                                                         *)
(* Scheduling.  Every entry point of the service is called from a          *)
(* coroutine of one asyncio event loop (main.py, mcp_server.py) and none   *)
(* of create_session, create_execution_request, execute_code and           *)
(* cleanup_session contains an await: a handler that has started runs to   *)
(* its end before another handler starts, while it blocks in               *)
(* client.get_iopub_msg.  The kernel is another process: it emits          *)
(* messages while a handler is blocked.  A handler is therefore one action,*)
(* except the protocol exchange, which takes one step per message read.    *)
(***************************************************************************)
EXTENDS Integers, Sequences, FiniteSets, TLC

\* ---------------------------------------------------------------- bounds

\* the values uuid.uuid4() yields for session ids, and for request ids
Sessions == {"s1", "s2"}
\* the ids among them that uuid4 gives create_session in one behaviour; a
\* request or a cleanup can name any of Sessions
NewIds == {"s1"}
Requests == {"r1", "r2"}

\* messages at most waiting unread on one iopub channel
MaxChan == 3
\* messages a kernel emits at most for one execution before its idle status
MaxEmit == 3
\* client.execute calls in one behaviour (each has its own msg_id)
MaxExec == 2
\* the last tick of the clock: handlers that read the clock, in one behaviour
MaxClock == 5
\* stop_kernel calls made directly on the kernel manager for one id
MaxStop == 2

\* lines at most in a code string tried
MaxLines == 3

\* calls at most on the one validator
MaxCalls == 5

\* packages at most on an install line tried
MaxPackages == 2

\* raw outputs at most in the result of an exchange that is translated
MaxOutputs == 2

\* the TCP ports of the host are 1..MaxPort
MaxPort == 6
\* ports at most that other processes of the host hold at a time
MaxOther == 1

\* ------------------------------------------------------------- constants

\* Python's None, and the three shapes of a result's "error"
NoneVal == [kind |-> "none"]

\* the representations KernelManager.execute_code copies from a bundle
KnownMimes == {"image/png", "image/svg+xml", "text/html", "text/plain"}

\* the five best-effort steps of stop_kernel, in the order of the code
TeardownSteps == {"stop_channels", "stop", "remove", "connection_file", "client_file"}

VARIABLES
    sessions,    \* CodeExecutionService.sessions: id -> metadata
    requests,    \* CodeExecutionService.requests: id -> request
    results,     \* CodeExecutionService.results: id -> result
    kernels,     \* KernelManager.kernels: the ids that have an entry
    container,   \* the container started for an id, as docker has it
    files,       \* the descriptor files in connection_dir
    volumes,     \* per id, the volumes containers.run was given
    channels,    \* the ids whose client channels are started
    iopub,       \* per id, the messages waiting on the client's iopub channel
    shell,       \* per id, the msg_ids the kernel has still to run, oldest first
    emitted,     \* per id, messages emitted for the execution at the head of shell
    exch,        \* protocol exchanges in flight: msg_id -> the frame of execute_code
    nextMsg,     \* the next msg_id client.execute returns
    usedIds,     \* the session ids uuid4 has given out
    now,         \* the clock datetime.utcnow() reads
    stopCalls,   \* per id, the calls of stop_kernel made so far
    teardowns,   \* per id, the calls of stop_kernel that found an entry
    attempts,    \* per id, what the last such call attempted and raised
    done,        \* what the last finished KernelManager.execute_code returned
    checked,     \* the last model validated: its fields and the outcome
    validator,   \* a CodeValidator's rule flags, and the calls made on it
    net,         \* the host's TCP ports: who holds them, and the ports probed per id
    raised       \* the exceptions handlers have raised to their callers

vars == <<sessions, requests, results, kernels, container, files, volumes, channels,
          iopub, shell, emitted, exch, nextMsg, usedIds, now, stopCalls,
          teardowns, attempts, done, checked, validator, net, raised>>

\* ------------------------------------------------- dictionaries as functions

\* d[k] = v, as Python's d[k] = v on a dict
Put(d, k, v) == [x \in DOMAIN d \cup {k} |-> IF x = k THEN v ELSE d[x]]

\* del d[k]
Del(d, k) == [x \in DOMAIN d \ {k} |-> d[x]]

EmptyDict == [x \in {} |-> NoneVal]

\* ------------------------------------------------------ protocol messages

\* what a kernel can put on iopub for the execution with msg_id m; the text
\* of an output names the execution whose code printed it
StatusMsg(m, state) ==
    [msg_type |-> "status", parent |-> m, content |-> [execution_state |-> state]]

StreamMsg(m) ==
    [msg_type |-> "stream", parent |-> m,
     content |-> [name |-> "stdout", text |-> <<"text", m>>]]

RenderMsg(m, type, mimes) ==
    [msg_type |-> type, parent |-> m,
     content |-> [data |-> [k \in mimes |-> <<k, m>>]]]

ErrorMsg(m) ==
    [msg_type |-> "error", parent |-> m,
     content |-> [ename |-> "NameError", evalue |-> <<"evalue", m>>,
                  traceback |-> <<"Traceback", m>>]]

\* a message of a type execute_code has no branch for: the kernel's echo of
\* the code, or its request to clear the output
OtherMsg(m, type) ==
    [msg_type |-> type, parent |-> m, content |-> [execution_count |-> m]]

\* the messages of an execution that are no output, no error and no idle
\* status
SkippedMsgs(m) ==
    { StatusMsg(m, "busy"), StatusMsg(m, "starting"),
      OtherMsg(m, "execute_input"), OtherMsg(m, "clear_output") }

\* the messages before the closing idle status
KernelMsgs(m) ==
    { StatusMsg(m, "busy"), StreamMsg(m), ErrorMsg(m),
      RenderMsg(m, "execute_result", {"text/plain", "image/png", "application/json"}) }

\* --------------------------------------- KernelManager.execute_code, the loop

InitResult == [status |-> "error", outputs |-> <<>>, error |-> NoneVal]

\* output_data: the four known representations that are present
OutputData(data) == [k \in DOMAIN data \cap KnownMimes |-> data[k]]

\* OnMessage without the break of the error branch
OnMessage_NoBreakOnError(result, msg) ==
    IF msg.msg_type = "status"
    THEN IF msg.content.execution_state = "idle"
         THEN [result |-> [result EXCEPT !.status = "completed"], stop |-> TRUE]
         ELSE [result |-> result, stop |-> FALSE]
    ELSE IF msg.msg_type = "stream"
    THEN [result |-> [result EXCEPT !.outputs =
                         Append(@, [type |-> "stream", name |-> msg.content.name,
                                    text |-> msg.content.text])],
          stop |-> FALSE]
    ELSE IF msg.msg_type \in {"execute_result", "display_data"}
    THEN [result |-> [result EXCEPT !.outputs =
                         Append(@, [type |-> msg.msg_type,
                                    data |-> [k \in DOMAIN msg.content.data \cap KnownMimes
                                                |-> msg.content.data[k]]])],
          stop |-> FALSE]
    ELSE IF msg.msg_type = "error"
    THEN [result |-> [result EXCEPT !.status = "error",
                                    !.error = [kind |-> "dict",
                                               ename |-> msg.content.ename,
                                               evalue |-> msg.content.evalue,
                                               traceback |-> msg.content.traceback]],
          stop |-> FALSE]
    ELSE [result |-> result, stop |-> FALSE]

\* OnMessage without the test of execution_state: any status message ends
\* the exchange as completed
OnMessage_AnyStatusEnds(result, msg) ==
    IF msg.msg_type = "status"
    THEN [result |-> [result EXCEPT !.status = "completed"], stop |-> TRUE]
    ELSE OnMessage_NoBreakOnError(result, msg)

\* one turn of the while loop on a message that was received: the result
\* after it, and whether the loop breaks
OnMessage(result, msg) ==
    IF msg.msg_type = "status"
    THEN IF msg.content.execution_state = "idle"
         THEN [result |-> [result EXCEPT !.status = "completed"], stop |-> TRUE]
         ELSE [result |-> result, stop |-> FALSE]
    ELSE IF msg.msg_type = "stream"
    THEN [result |-> [result EXCEPT !.outputs =
                         Append(@, [type |-> "stream", name |-> msg.content.name,
                                    text |-> msg.content.text])],
          stop |-> FALSE]
    ELSE IF msg.msg_type \in {"execute_result", "display_data"}
    THEN [result |-> [result EXCEPT !.outputs =
                         Append(@, [type |-> msg.msg_type,
                                    data |-> OutputData(msg.content.data)])],
          stop |-> FALSE]
    ELSE IF msg.msg_type = "error"
    THEN [result |-> [result EXCEPT !.status = "error",
                                    !.error = [kind |-> "dict",
                                               ename |-> msg.content.ename,
                                               evalue |-> msg.content.evalue,
                                               traceback |-> msg.content.traceback]],
          stop |-> TRUE]
    ELSE [result |-> result, stop |-> FALSE]

\* OnException building a new result instead of updating the one at hand
OnException_DropsOutputs(result, desc) ==
    [result |-> [status |-> "error", outputs |-> <<>>,
                 error |-> [kind |-> "str", text |-> <<"Execution error: ", desc>>]],
     stop |-> TRUE]

\* OnException without the break of the except block
OnException_NoBreak(result, desc) ==
    [result |-> [result EXCEPT !.status = "error",
                               !.error = [kind |-> "str",
                                          text |-> <<"Execution error: ", desc>>]],
     stop |-> FALSE]

\* one turn of the while loop when get_iopub_msg raised e, str(e) = desc
OnException(result, desc) ==
    [result |-> [result EXCEPT !.status = "error",
                               !.error = [kind |-> "str",
                                          text |-> <<"Execution error: ", desc>>]],
     stop |-> TRUE]

\* ------------------------------- CodeExecutionService.execute_code, the result

RECURSIVE FormatOutputs(_)
\* formatted_outputs and files, from the raw outputs in order
FormatOutputs(outputs) ==
    IF outputs = <<>> THEN [output |-> <<>>, files |-> <<>>]
    ELSE LET rest == FormatOutputs(Tail(outputs))
             o == Head(outputs)
         IN IF o.type = "stream"
            THEN [output |-> <<[type |-> "stream", content |-> o.text]>> \o rest.output,
                  files |-> rest.files]
            ELSE IF o.type \in {"execute_result", "display_data"}
            THEN [output |-> (IF "text/plain" \in DOMAIN o.data
                              THEN <<[type |-> "result", content |-> o.data["text/plain"]]>>
                              ELSE <<>>) \o rest.output,
                  files |-> (IF "image/png" \in DOMAIN o.data
                             THEN <<o.data["image/png"]>> ELSE <<>>) \o rest.files]
            ELSE rest

\* FullResult with the formatted outputs in the opposite order
FullResult_Reversed(result, at) ==
    LET f == FormatOutputs(result.outputs)
        n == Len(f.output)
    IN [status |-> result.status, output |-> [i \in 1..n |-> f.output[n + 1 - i]],
        error |-> result.error, files |-> f.files, completed_at |-> at]

\* the result stored when the exchange returned
FullResult(result, at) ==
    LET f == FormatOutputs(result.outputs)
    IN [status |-> result.status, output |-> f.output, error |-> result.error,
        files |-> f.files, completed_at |-> at]

\* the result stored by the except branch, str(e) = text
ExceptResult(text, at) ==
    [status |-> "error", error |-> [kind |-> "str", text |-> text], completed_at |-> at]

\* --------------------------------------------------- KernelManager, the world

\* the kernel manager with the containers, files and channels it acts on
World ==
    [kernels |-> kernels, container |-> container, files |-> files,
     volumes |-> volumes, channels |-> channels, iopub |-> iopub, shell |-> shell, emitted |-> emitted,
     stopCalls |-> stopCalls, teardowns |-> teardowns, attempts |-> attempts]

ConnectionFile(id) == <<"kernel", id>>
ClientFile(id) == <<"client", id>>

\* the five steps as stop_kernel takes them
TeardownOrder == <<"stop_channels", "stop", "remove", "connection_file", "client_file">>

\* no stop_kernel has found an entry yet
NoAttempt == [attempted |-> <<>>, exc |-> "none"]

RECURSIVE RunTeardown_NoTry(_, _)
\* RunTeardown without the try blocks: the first step that raises ends it
RunTeardown_NoTry(steps, fails) ==
    IF steps = <<>> THEN NoAttempt
    ELSE IF Head(steps) \in fails
    THEN [attempted |-> <<Head(steps)>>, exc |-> "Exception"]
    ELSE LET rest == RunTeardown_NoTry(Tail(steps), fails)
         IN [attempted |-> <<Head(steps)>> \o rest.attempted, exc |-> rest.exc]

RECURSIVE RunTeardown(_, _)
\* the try blocks of stop_kernel on `steps`, the steps in `fails` raising:
\* the steps attempted, in order, and the exception that left the blocks.
\* Each step is in its own try whose except clause logs and goes on
RunTeardown(steps, fails) ==
    IF steps = <<>> THEN NoAttempt
    ELSE LET rest == RunTeardown(Tail(steps), fails)
         IN IF Head(steps) \in fails
            THEN \* except Exception: logger.error, then the next try
                 [attempted |-> <<Head(steps)>> \o rest.attempted, exc |-> rest.exc]
            ELSE [attempted |-> <<Head(steps)>> \o rest.attempted, exc |-> rest.exc]

\* the sets of teardown steps that may raise in one call of stop_kernel
Faults == {{}, TeardownSteps} \cup {{x} : x \in TeardownSteps}

\* stop_kernel without the del of the entry
StopKernel_KeepsEntry(w, id, fails) ==
    IF id \notin w.kernels
    THEN [w EXCEPT !.stopCalls[id] = @ + 1]
    ELSE [w EXCEPT !.channels = @ \ {id},
                   !.container[id] = "removed",
                   !.files = @ \ {ConnectionFile(id), ClientFile(id)},
                   !.stopCalls[id] = @ + 1,
                   !.teardowns[id] = @ + 1]

\* stop_kernel(id), the steps in `fails` raising: each step is tried, a
\* container is stopped unless the stop raised, removed unless it still runs
\* or the remove raised, and the entry is deleted whatever happened
StopKernel(w, id, fails) ==
    IF id \notin w.kernels
    THEN [w EXCEPT !.stopCalls[id] = @ + 1]
    ELSE LET t == RunTeardown(TeardownOrder, fails)
             tried(step) == \E i \in 1..Len(t.attempted) : t.attempted[i] = step
             ok(step) == tried(step) /\ step \notin fails
             stopped == IF ok("stop") /\ w.container[id] = "running"
                        THEN "exited" ELSE w.container[id]
             removed == IF ok("remove") /\ stopped # "running"
                        THEN "removed" ELSE stopped
         IN [w EXCEPT !.channels = IF ok("stop_channels") THEN @ \ {id} ELSE @,
                      !.container[id] = removed,
                      !.files = @ \ ((IF ok("connection_file") THEN {ConnectionFile(id)}
                                      ELSE {})
                                     \cup (IF ok("client_file") THEN {ClientFile(id)}
                                           ELSE {})),
                      \* del self.kernels[kernel_id], reached when nothing escaped
                      !.kernels = IF t.exc = "none" THEN @ \ {id} ELSE @,
                      !.attempts[id] = t,
                      !.iopub[id] = <<>>,
                      !.shell[id] = <<>>,
                      !.emitted[id] = 0,
                      !.stopCalls[id] = @ + 1,
                      !.teardowns[id] = @ + 1]

\* what containers.run(detach=True) can do: start the container, raise
\* before creating it, or raise after creating it
RunOutcomes == {"started", "raise", "raise_created"}

\* the status each of the four container.reload() calls can show, in order,
\* and the status the container has when container.remove() is called after
\* them: a container goes from created to running to exited
StatusRank(st) == CASE st = "created" -> 1 [] st = "running" -> 2 [] st = "exited" -> 3
Reloads == 1..4
AtRemove == 5
PollSeqs ==
    { p \in [1..AtRemove -> {"created", "running", "exited"}] :
        \A i \in Reloads : StatusRank(p[i]) <= StatusRank(p[i + 1]) }

\* the reload whose status ends the polling: the for loop tests the status
\* after reloads 1, 2 and 3 and breaks on "running"; 0 when it never breaks
BreakAt(polls) ==
    IF polls[1] = "running" THEN 1
    ELSE IF polls[2] = "running" THEN 2
    ELSE IF polls[3] = "running" THEN 3
    ELSE 0

\* the reloads made: one before the loop and one in each turn that does not break
LastReload(polls) == IF BreakAt(polls) = 0 THEN 4 ELSE BreakAt(polls)

\* what client.start_channels() and client.wait_for_ready(timeout=30) can do
ReadyOutcomes == {"ready", "RuntimeError", "Exception"}

\* RuntimeError(f"Kernel container failed to start: {container.status}"),
\* the status being the one the last reload showed
StartupError(st) ==
    CASE st = "created" -> "RuntimeError: Kernel container failed to start: created"
      [] st = "running" -> "RuntimeError: Kernel container failed to start: running"
      [] st = "exited" -> "RuntimeError: Kernel container failed to start: exited"

\* what docker raises for container.remove(), not forced, of a running container
RemoveError == "APIError: cannot remove a running container"

\* the bind of the connection descriptor in container_config["volumes"]
ConnectionBind == [bind |-> "/opt/connection/kernel.json", mode |-> "ro"]

\* the bind of a mount point
MountBind(mp) ==
    [bind |-> mp.container_path, mode |-> IF mp.read_only THEN "ro" ELSE "rw"]

RECURSIVE AddMounts(_, _)
\* the volumes with one entry per mount point added, keyed by host path
AddMounts(vols, mounts) ==
    IF mounts = <<>> THEN vols
    ELSE AddMounts(Put(vols, <<"host", Head(mounts).host_path>>, MountBind(Head(mounts))),
                   Tail(mounts))

\* container_config["volumes"] of start_kernel(id, mount_points): the
\* connection descriptor, read-only, and the mount points when there are any
Volumes(id, mounts) ==
    LET conn == Put(EmptyDict, ConnectionFile(id), ConnectionBind)
    IN IF mounts.kind = "none" THEN conn ELSE AddMounts(conn, mounts.items)

\* start_kernel(id, mount_points): the world after it and the exception it
\* raised, "none" when it returned.  The steps are those of start_kernel as
\* it is in kernel_manager.py, which takes no mount points; create_session
\* and the tests call it with them, and they add volumes to the container
\* configuration and change none of the steps.
StartKernel(w, id, mounts, run, polls, ready, fails) ==
    LET w0 == [w EXCEPT !.files = @ \cup {ConnectionFile(id)}]
        \* containers.run(**container_config) created the container
        w1 == [w0 EXCEPT !.volumes[id] = Volumes(id, mounts)]
    IN IF run = "raise" THEN [w |-> w0, exc |-> "APIError"]
       ELSE IF run = "raise_created"
       THEN [w |-> [w1 EXCEPT !.container[id] = "created"], exc |-> "APIError"]
       ELSE IF BreakAt(polls) = 0
       THEN \* the else of the for loop: container.remove(), not forced
            IF polls[AtRemove] = "running"
            THEN [w |-> [w1 EXCEPT !.container[id] = "running"], exc |-> RemoveError]
            ELSE [w |-> [w1 EXCEPT !.container[id] = "removed"],
                  exc |-> StartupError(polls[LastReload(polls)])]
       ELSE LET w2 == [w1 EXCEPT !.container[id] = polls[LastReload(polls)],
                                 !.files = @ \cup {ClientFile(id)},
                                 !.kernels = @ \cup {id},
                                 !.channels = @ \cup {id}]
            IN IF ready = "ready" THEN [w |-> w2, exc |-> "none"]
               ELSE IF ready = "RuntimeError"
               THEN [w |-> StopKernel(w2, id, fails),
                     exc |-> "RuntimeError: Kernel failed to start"]
               ELSE [w |-> w2, exc |-> "Exception"]

\* get_execution_results(rid) of main.py: the response, or the error it
\* raises: 404 without a result, KeyError on a result without the key
GetResults(res, rid) ==
    IF rid \notin DOMAIN res THEN [raises |-> "HTTP404"]
    ELSE LET result == res[rid]
         IN IF {"status", "output", "completed_at"} \subseteq DOMAIN result
            THEN [raises |-> "none",
                  status |-> result.status,
                  output |-> result.output,
                  error |-> IF "error" \in DOMAIN result THEN result.error ELSE NoneVal,
                  files |-> IF "files" \in DOMAIN result THEN result.files ELSE <<>>,
                  completed_at |-> result.completed_at]
            ELSE [raises |-> "KeyError"]

\* get_execution_status(rid) of main.py: the status it reports, the result's
\* when there is a result and the request's otherwise; 404 without a request
GetStatus(reqs, res, rid) ==
    IF rid \notin DOMAIN reqs THEN "HTTP404"
    ELSE IF rid \in DOMAIN res /\ "status" \in DOMAIN res[rid] THEN res[rid].status
    ELSE reqs[rid].status

\* ------------------------------------------- security.validators.code

\* A code string is the sequence of its lines.  What the regular
\* expressions and ast.parse find in each line text tried: whether it
\* matches a jupyter pattern (starts with ! or %), whether it starts with
\* "!" when stripped, the first word after the "!" ("" when there is none),
\* the names called and the root modules imported, in the order of the
\* text, whether it has a __name__ pattern, whether it parses, the install
\* pattern it matches (pip, conda or none), and for the package pattern,
\* whose character class has \s and so runs over line ends, the words of
\* the line it takes as packages and whether it takes the whole line
LineFacts(text) ==
    CASE text = "import sys" ->
           [jupyter |-> FALSE, bang |-> FALSE, command |-> "", calls |-> <<>>,
            imports |-> <<"sys">>,
            dunder |-> FALSE, syntax |-> TRUE, install |-> "none",
            words |-> <<"import", "sys">>, wholly |-> TRUE]
      [] text = "import os" ->
           [jupyter |-> FALSE, bang |-> FALSE, command |-> "", calls |-> <<>>,
            imports |-> <<"os">>,
            dunder |-> FALSE, syntax |-> TRUE, install |-> "none",
            words |-> <<"import", "os">>, wholly |-> TRUE]
      [] text = "import flask" ->
           [jupyter |-> FALSE, bang |-> FALSE, command |-> "", calls |-> <<>>,
            imports |-> <<"flask">>,
            dunder |-> FALSE, syntax |-> TRUE, install |-> "none",
            words |-> <<"import", "flask">>, wholly |-> TRUE]
      [] text = "from subprocess import run" ->
           [jupyter |-> FALSE, bang |-> FALSE, command |-> "", calls |-> <<>>,
            imports |-> <<"subprocess">>,
            dunder |-> FALSE, syntax |-> TRUE, install |-> "none",
            words |-> <<"from", "subprocess", "import", "run">>, wholly |-> TRUE]
      [] text = "%matplotlib inline" ->
           [jupyter |-> TRUE, bang |-> FALSE, command |-> "", calls |-> <<>>,
            imports |-> <<>>,
            dunder |-> FALSE, syntax |-> FALSE, install |-> "none",
            words |-> <<>>, wholly |-> FALSE]
      [] text = "eval('2+2')" ->
           [jupyter |-> FALSE, bang |-> FALSE, command |-> "", calls |-> <<"eval">>,
            imports |-> <<>>,
            dunder |-> FALSE, syntax |-> TRUE, install |-> "none",
            words |-> <<"eval">>, wholly |-> FALSE]
      [] text = "print('hi')" ->
           [jupyter |-> FALSE, bang |-> FALSE, command |-> "", calls |-> <<"print">>,
            imports |-> <<>>,
            dunder |-> FALSE, syntax |-> TRUE, install |-> "none",
            words |-> <<"print">>, wholly |-> FALSE]
      [] text = "x.__class__" ->
           [jupyter |-> FALSE, bang |-> FALSE, command |-> "", calls |-> <<>>,
            imports |-> <<>>,
            dunder |-> TRUE, syntax |-> TRUE, install |-> "none",
            words |-> <<"x.__class__">>, wholly |-> TRUE]
      [] text = "def f(:" ->
           [jupyter |-> FALSE, bang |-> FALSE, command |-> "", calls |-> <<>>,
            imports |-> <<>>,
            dunder |-> FALSE, syntax |-> FALSE, install |-> "none",
            words |-> <<"def", "f">>, wholly |-> FALSE]
      [] text = "!rm -rf /" ->
           [jupyter |-> TRUE, bang |-> TRUE, command |-> "rm", calls |-> <<>>,
            imports |-> <<>>,
            dunder |-> FALSE, syntax |-> FALSE, install |-> "none",
            words |-> <<>>, wholly |-> FALSE]
      [] text = "!" ->
           [jupyter |-> TRUE, bang |-> TRUE, command |-> "", calls |-> <<>>,
            imports |-> <<>>,
            dunder |-> FALSE, syntax |-> FALSE, install |-> "none",
            words |-> <<>>, wholly |-> FALSE]
      [] text = "!pip install requests" ->
           [jupyter |-> TRUE, bang |-> TRUE, command |-> "pip", calls |-> <<>>,
            imports |-> <<>>,
            dunder |-> FALSE, syntax |-> FALSE, install |-> "pip",
            words |-> <<"requests">>, wholly |-> TRUE]
      [] text = "!pip install docker" ->
           [jupyter |-> TRUE, bang |-> TRUE, command |-> "pip", calls |-> <<>>,
            imports |-> <<>>,
            dunder |-> FALSE, syntax |-> FALSE, install |-> "pip",
            words |-> <<"docker">>, wholly |-> TRUE]

\* a word the package pattern takes, as a package: its name as written and
\* its version specifier, a sequence of clauses (none here)
Word(n) == [name |-> n, spec |-> <<>>]

\* a line of code: what the patterns and the parser find in it
Line(text) ==
    LET f == LineFacts(text)
    IN [f EXCEPT !.words = [i \in DOMAIN f.words |-> Word(f.words[i])]]

\* a code string, from the texts of its lines
Code(texts) == [i \in DOMAIN texts |-> Line(texts[i])]

\* the first word of an install command, and the pattern that matches it
InstallCommand(how) == IF how = "python -m pip" THEN "python" ELSE how
Installer(how) == IF how = "conda" THEN "conda" ELSE "pip"

\* the line "!<how> install <packages>", how being pip, python -m pip or
\* conda and the packages being separated by blanks: the pattern takes the
\* whole rest of the line, the characters of names and specifiers being in
\* its class
InstallLine(how, packages) ==
    [jupyter |-> TRUE, bang |-> TRUE, command |-> InstallCommand(how), calls |-> <<>>,
     imports |-> <<>>, dunder |-> FALSE, syntax |-> FALSE, install |-> Installer(how),
     words |-> packages, wholly |-> TRUE]

\* CodeValidator.__init__: the sets the rules test against
forbidden_builtins == {"eval", "exec", "globals", "locals", "compile", "__import__"}
forbidden_modules ==
    {"sys", "subprocess", "multiprocessing", "socket", "pickle", "marshal", "shelve",
     "pty", "pdb"}
allowed_shell_commands ==
    {"pip", "conda", "jupyter", "python", "pytest", "black", "flake8", "mypy", "curl",
     "wget"}
\* blocked_packages, the module's set
blocked_packages ==
    {"crypto", "pycrypto", "cryptography", "paramiko", "fabric", "ansible", "salt",
     "puppet", "psutil", "pywin32", "winreg", "win32com", "win32api", "pyinstaller",
     "py2exe", "cx_Freeze", "distutils", "pycdlib", "django", "flask", "fastapi",
     "tornado", "twisted", "socketserver", "ftplib", "smtplib", "sh", "shellingham",
     "pexpect", "pyshell", "ctypes", "cffi", "mmap", "code", "pdb", "rpdb", "ipdb",
     "pyrasite", "docker", "kubernetes", "boto3", "azure", "google-cloud"}

\* the minimum versions of allowed_versions, each registered as {">=min"}
allowed_versions ==
    [pillow |-> <<9, 0, 0>>, numpy |-> <<1, 22, 2>>, requests |-> <<2, 31, 0>>,
     pandas |-> <<1, 4, 0>>, tensorflow |-> <<2, 11, 1>>, torch |-> <<1, 13, 1>>,
     urllib3 |-> <<1, 26, 5>>, scipy |-> <<1, 10, 0>>]

\* the rules of _initialize_rules, in the order of self.rules
RuleNames ==
    <<"jupyter_commands", "dangerous_builtins", "dangerous_imports",
      "dangerous_patterns", "package_installation">>
RuleSet == {RuleNames[i] : i \in 1..Len(RuleNames)}

\* CodeValidator(): every rule enabled
NewValidator == [r \in RuleSet |-> TRUE]

\* enable_rule(rule_name): an unknown name is logged and ignored
EnableRule(v, name) == IF name \in DOMAIN v THEN [v EXCEPT ![name] = TRUE] ELSE v

\* disable_rule disabling every rule but the one named
DisableRule_Others(v, name) ==
    IF name \in DOMAIN v THEN [r \in DOMAIN v |-> (r = name /\ v[r])] ELSE v

\* disable_rule(rule_name): an unknown name is logged and ignored
DisableRule(v, name) == IF name \in DOMAIN v THEN [v EXCEPT ![name] = FALSE] ELSE v

\* create_validator_with_disabled_rules with "all" disabling no rule
CreateValidator_AllIgnored(disabled) ==
    IF disabled.kind = "none" \/ disabled.items = {} THEN NewValidator
    ELSE [r \in RuleSet |-> (r \notin disabled.items)]

\* create_validator_with_disabled_rules disabling the rules on the validator
\* of the request before instead of on a new CodeValidator()
CreateValidator_Shared(disabled) ==
    IF disabled.kind = "none" \/ disabled.items = {} THEN validator.rules
    ELSE IF "all" \in disabled.items
    THEN [r \in RuleSet |-> FALSE]
    ELSE [r \in RuleSet |-> (validator.rules[r] /\ r \notin disabled.items)]

\* create_validator_with_disabled_rules(disabled_rules), the list being None
\* or the set of its items
CreateValidator(disabled) ==
    IF disabled.kind = "none" \/ disabled.items = {} THEN NewValidator
    ELSE IF "all" \in disabled.items
    THEN [r \in RuleSet |-> FALSE]
    ELSE [r \in RuleSet |-> (r \notin disabled.items)]

\* the lines validate_code takes as Python code: those matching no jupyter
\* pattern
PythonCode(code) == SelectSeq(code, LAMBDA l : ~l.jupyter)

\* the outcome of a rule: passed, failed with a message, or an exception; a
\* message is the pair of its fixed text and the name the rule puts after it
Passed == [ok |-> TRUE, msg |-> <<"", "">>, raises |-> "none"]
Failed(msg) == [ok |-> FALSE, msg |-> msg, raises |-> "none"]

RECURSIVE ValidateJupyterCommands(_)
\* _validate_jupyter_commands(code): the first word of each "!" line, in
\* order, must be an allowed command; a "!" line without a word has no
\* first word to take
ValidateJupyterCommands(code) ==
    IF code = <<>> THEN Passed
    ELSE LET f == Head(code)
         IN IF ~f.bang
            THEN ValidateJupyterCommands(Tail(code))
            ELSE IF f.command = ""
            THEN [ok |-> FALSE, msg |-> <<"", "">>, raises |-> "IndexError"]
            ELSE IF f.command \notin allowed_shell_commands
            THEN Failed(<<"Shell command not allowed", f.command>>)
            ELSE ValidateJupyterCommands(Tail(code))

\* ast.parse(code) succeeds
Parses(code) == \A i \in 1..Len(code) : code[i].syntax

\* what ast_rule returns for code that does not parse
SyntaxFailure == Failed(<<"Invalid Python syntax", "invalid syntax">>)

RECURSIVE CallsOf(_)
\* the names called in the code, as ast.walk meets them
CallsOf(code) ==
    IF code = <<>> THEN <<>> ELSE Head(code).calls \o CallsOf(Tail(code))

RECURSIVE ImportsOf(_)
\* the root modules imported in the code, as ast.walk meets them
ImportsOf(code) ==
    IF code = <<>> THEN <<>> ELSE Head(code).imports \o ImportsOf(Tail(code))

\* the names of a sequence that are in a set, in order
Hits(names, set) == SelectSeq(names, LAMBDA n : n \in set)

\* _validate_builtins(code) under ast_rule
ValidateBuiltins(code) ==
    IF ~Parses(code) THEN SyntaxFailure
    ELSE IF Hits(CallsOf(code), forbidden_builtins) # <<>>
    THEN Failed(<<"Forbidden function call", Head(Hits(CallsOf(code), forbidden_builtins))>>)
    ELSE Passed

\* _validate_imports(code) under ast_rule
ValidateImports(code) ==
    IF ~Parses(code) THEN SyntaxFailure
    ELSE IF Hits(ImportsOf(code), forbidden_modules) # <<>>
    THEN Failed(<<"Forbidden import", Head(Hits(ImportsOf(code), forbidden_modules))>>)
    ELSE Passed

\* _validate_patterns(code)
ValidatePatterns(code) ==
    IF \E i \in 1..Len(code) : code[i].dunder
    THEN Failed(<<"Forbidden pattern found", "(?<![\\!%])__\\w+__">>)
    ELSE Passed

\* str.lower() of the package names tried
Lower(name) ==
    CASE name \in {"PILLOW", "Pillow"} -> "pillow"
      [] name \in {"FLASK", "Flask"} -> "flask"
      [] name \in {"CX_FREEZE", "cx_Freeze"} -> "cx_freeze"
      [] OTHER -> name

\* packaging's Version of a release x.y.z as <<x, y, z>> (x.y being x.y.0),
\* <<>> standing for a text that is no version; a < b on releases
IsVersion(v) == Len(v) = 3
Less(a, b) ==
    \/ a[1] < b[1]
    \/ a[1] = b[1] /\ a[2] < b[2]
    \/ a[1] = b[1] /\ a[2] = b[2] /\ a[3] < b[3]

\* one clause of a specifier holds of a release
Sat(c, v) ==
    CASE c.op = "==" -> v = c.ver
      [] c.op = ">=" -> ~Less(v, c.ver)
      [] c.op = "<=" -> ~Less(c.ver, v)
      [] c.op = ">" -> Less(c.ver, v)
      [] c.op = "<" -> Less(v, c.ver)

\* SpecifierSet(spec).contains(v)
Contains(spec, v) == \A i \in 1..Len(spec) : Sat(spec[i], v)

\* the version check of a package with a registered minimum: an exact pin
\* must satisfy the minimum, the text after "==" being the version; a range
\* is refused when it contains major.minor of the minimum and that is below
\* the minimum; whatever packaging raises is an invalid specification
CheckVersion(name, spec) ==
    LET min == allowed_versions[name]
        pins == {i \in 1..Len(spec) : spec[i].op = "=="}
        test_ver == <<min[1], min[2], 0>>
    IN IF pins # {}
       THEN IF pins # {Len(spec)} \/ ~IsVersion(spec[Len(spec)].ver)
            THEN Failed(<<"Invalid version specification", name>>)
            ELSE IF Less(spec[Len(spec)].ver, min)
            THEN Failed(<<"Version is not allowed", name>>)
            ELSE Passed
       ELSE IF \E i \in 1..Len(spec) : ~IsVersion(spec[i].ver)
            THEN Failed(<<"Invalid version specification", name>>)
            ELSE IF Less(test_ver, min) /\ Contains(spec, test_ver)
            THEN Failed(<<"Version would allow versions below minimum required", name>>)
            ELSE Passed

\* the checks of one package of an install command, under an allow list
CheckPackage(p, allowed_packages) ==
    IF Lower(p.name) \in blocked_packages
    THEN Failed(<<"Package is blocked for security reasons", p.name>>)
    ELSE IF allowed_packages # {} /\ p.name \notin allowed_packages
    THEN Failed(<<"Package is not in the allowed packages list", p.name>>)
    ELSE IF p.spec # <<>> /\ p.name \in DOMAIN allowed_versions
    THEN CheckVersion(p.name, p.spec)
    ELSE Passed

RECURSIVE MatchedPackages(_, _, _)
\* the packages the pattern of an installer takes from the code: those of
\* its install commands and, the character class having \s, the words of
\* the lines after one, while `open`: up to the first character outside
\* the class
MatchedPackages(code, installer, open) ==
    IF code = <<>> THEN <<>>
    ELSE LET f == Head(code)
         IN IF f.install = installer
            THEN f.words \o MatchedPackages(Tail(code), installer, f.wholly)
            ELSE IF open /\ f.install = "none"
            THEN f.words \o MatchedPackages(Tail(code), installer, f.wholly)
            ELSE MatchedPackages(Tail(code), installer, FALSE)

\* the package rule under an allow list: the first package to fail a check,
\* of the pip commands and then of the conda commands
ValidatePackages(code, allowed_packages) ==
    LET pk == MatchedPackages(code, "pip", FALSE) \o MatchedPackages(code, "conda", FALSE)
        bad == SelectSeq(pk, LAMBDA p : ~CheckPackage(p, allowed_packages).ok)
    IN IF bad # <<>> THEN CheckPackage(Head(bad), allowed_packages) ELSE Passed

\* _validate_package_installation(code), the allow list being empty
ValidatePackageInstallation(code) == ValidatePackages(code, {})

\* rule.validation_fn(...) as validate_code calls it: the two command rules
\* on the whole code, the others on the Python lines
RunRule(name, code) ==
    CASE name = "jupyter_commands" -> ValidateJupyterCommands(code)
      [] name = "package_installation" -> ValidatePackageInstallation(code)
      [] name = "dangerous_builtins" -> ValidateBuiltins(PythonCode(code))
      [] name = "dangerous_imports" -> ValidateImports(PythonCode(code))
      [] name = "dangerous_patterns" -> ValidatePatterns(PythonCode(code))

RECURSIVE RunRules(_, _, _)
\* the loop over self.rules from rule i on: the failures collected, in
\* order, or the exception of the first enabled rule that raises
RunRules(v, code, i) ==
    IF i > Len(RuleNames) THEN [failures |-> <<>>, raises |-> "none"]
    ELSE IF ~v[RuleNames[i]] THEN RunRules(v, code, i + 1)
    ELSE LET r == RunRule(RuleNames[i], code)
             rest == RunRules(v, code, i + 1)
         IN IF r.raises # "none" THEN [failures |-> <<>>, raises |-> r.raises]
            ELSE [failures |-> (IF r.ok THEN <<>> ELSE <<r.msg>>) \o rest.failures,
                  raises |-> rest.raises]

\* validator.validate_code(code): (is_valid, message), the message being the
\* failures in order (joined by "; "), or the exception raised
ValidateCode(v, code) ==
    LET r == RunRules(v, code, 1)
    IN IF r.raises # "none" THEN [raises |-> r.raises, valid |-> FALSE, message |-> <<>>]
       ELSE IF r.failures # <<>>
       THEN [raises |-> "none", valid |-> FALSE, message |-> r.failures]
       ELSE [raises |-> "none", valid |-> TRUE,
             message |-> <<<<"Code validation passed", "">>>>]

\* ExecutionRequest.validate_code(code, info), info.data holding
\* disable_validation: the code accepted, ValueError with the message, or
\* the exception of the validator
RequestValidateCode(code, disabled) ==
    IF disabled.kind # "none" /\ "all" \in disabled.items
    THEN [raises |-> "none", code |-> code]
    ELSE LET r == ValidateCode(CreateValidator(disabled), code)
         IN IF r.raises # "none" THEN [raises |-> r.raises, code |-> <<>>]
            ELSE IF ~r.valid THEN [raises |-> "ValueError", code |-> <<>>]
            ELSE [raises |-> "none", code |-> code]

\* the lines tried, the code strings of at most n of them, and the
\* disabled-rules lists tried: None, or a list of rule names, "all" and an
\* unknown name
LineTexts ==
    {"import sys", "import os", "import flask", "from subprocess import run",
     "eval('2+2')",
     "print('hi')", "x.__class__", "def f(:", "%matplotlib inline", "!rm -rf /", "!",
     "!pip install requests", "!pip install docker"}
CodeLines == {Line(t) : t \in LineTexts}
CodesUpTo(n) == UNION {[1..k -> CodeLines] : k \in 0..n}
DisabledLists ==
    {NoneVal} \cup
    {[kind |-> "list", items |-> s] :
        s \in SUBSET {"all", "dangerous_imports", "jupyter_commands", "no_such_rule"}}

\* ExecutionRequest.code: Field(max_length=...)
max_length == 100000

\* the blanks tried at the end of a code string, which change nothing of
\* what its lines are: none, or more than the code field allows
Pads == {0, max_length + 1}

\* ExecutionRequest(code=..., disable_validation=disabled): the code field
\* is tested against max_length before validate_code is called; a string
\* is at least as long as its blanks, and the lines tried alone are short
NewExecutionRequest(code, pad, disabled) ==
    IF pad > max_length
    THEN [raises |-> "ValidationError", code |-> <<>>]
    ELSE RequestValidateCode(code, disabled)


\* ------------------------------------------------- KernelManager, the ports

\* ports = [self._find_free_port() for _ in range(5)]
PortsPerKernel == 5

Ports == 1..MaxPort

\* no port held, none probed, no start_kernel under way
NoPorts ==
    [taken |-> {}, bound |-> [s \in Sessions |-> {}], probed |-> [s \in Sessions |-> <<>>],
     run |-> [s \in Sessions |-> "none"], creating |-> ""]

\* the ports held now: by other processes, or published for a container
Held(n) == n.taken \cup UNION {n.bound[s] : s \in Sessions}

\* the values of a sequence
Range(seq) == {seq[i] : i \in 1..Len(seq)}

\* the ports the system can hand out now: any port nobody holds
FreePorts(n) == Ports \ Held(n)

\* the list `ports` with p added.  The list is kept in increasing order:
\* which channel gets which port plays no part in what follows
AddPort(ports, p) ==
    LET below == SelectSeq(ports, LAMBDA q : q <= p)
        above == SelectSeq(ports, LAMBDA q : q > p)
    IN below \o <<p>> \o above

\* start_kernel(id) is entered: _create_connection_file begins
BeginStart(id) ==
    /\ net.creating = ""
    /\ net.run[id] = "none"
    /\ net.probed[id] = <<>>
    /\ net' = [net EXCEPT !.creating = id]
    /\ UNCHANGED <<checked, validator, sessions, requests, results, kernels, container, files,
                   volumes, channels, iopub, shell, emitted, exch, nextMsg, usedIds, now,
                   stopCalls, teardowns, attempts, done, raised>>

\* one _find_free_port() of the five: a socket is bound to port 0, the
\* system picks a free port p for it, and the socket is closed again before
\* p is returned
FindFreePort(id, p) ==
    /\ net.creating = id
    /\ Len(net.probed[id]) < PortsPerKernel
    /\ p \in FreePorts(net)
    /\ net' = [net EXCEPT !.probed[id] = AddPort(@, p)]
    /\ UNCHANGED <<checked, validator, sessions, requests, results, kernels, container, files,
                   volumes, channels, iopub, shell, emitted, exch, nextMsg, usedIds, now,
                   stopCalls, teardowns, attempts, done, raised>>

\* docker_client.containers.run(ports=port_bindings): docker publishes the
\* ports of the descriptor, or raises because one of them is held
RunContainer(id) ==
    /\ net.creating = id
    /\ Len(net.probed[id]) = PortsPerKernel
    /\ IF Range(net.probed[id]) \cap Held(net) = {}
       THEN net' = [net EXCEPT !.bound[id] = Range(net.probed[id]),
                               !.run[id] = "started", !.creating = ""]
       ELSE net' = [net EXCEPT !.run[id] = "port is already allocated", !.creating = ""]
    /\ UNCHANGED <<checked, validator, sessions, requests, results, kernels, container, files,
                   volumes, channels, iopub, shell, emitted, exch, nextMsg, usedIds, now,
                   stopCalls, teardowns, attempts, done, raised>>

\* stop_kernel(id): container.stop() and remove() give the ports back
StopContainer(id) ==
    /\ net.creating = ""
    /\ net.run[id] = "started"
    /\ net' = [net EXCEPT !.bound[id] = {}, !.probed[id] = <<>>, !.run[id] = "stopped"]
    /\ UNCHANGED <<checked, validator, sessions, requests, results, kernels, container, files,
                   volumes, channels, iopub, shell, emitted, exch, nextMsg, usedIds, now,
                   stopCalls, teardowns, attempts, done, raised>>

\* another process of the host binds the free port p
OtherBinds(p) ==
    /\ Cardinality(net.taken) < MaxOther
    /\ p \in FreePorts(net)
    /\ net' = [net EXCEPT !.taken = @ \cup {p}]
    /\ UNCHANGED <<checked, validator, sessions, requests, results, kernels, container, files,
                   volumes, channels, iopub, shell, emitted, exch, nextMsg, usedIds, now,
                   stopCalls, teardowns, attempts, done, raised>>

\* another process closes the port p it held
OtherCloses(p) ==
    /\ p \in net.taken
    /\ net' = [net EXCEPT !.taken = @ \ {p}]
    /\ UNCHANGED <<checked, validator, sessions, requests, results, kernels, container, files,
                   volumes, channels, iopub, shell, emitted, exch, nextMsg, usedIds, now,
                   stopCalls, teardowns, attempts, done, raised>>

\* ------------------------------------------------------------------ state

Init ==
    /\ sessions = EmptyDict
    /\ requests = EmptyDict
    /\ results = EmptyDict
    /\ kernels = {}
    /\ container = [s \in Sessions |-> "none"]
    /\ files = {}
    /\ volumes = [s \in Sessions |-> EmptyDict]
    /\ channels = {}
    /\ iopub = [s \in Sessions |-> <<>>]
    /\ shell = [s \in Sessions |-> <<>>]
    /\ emitted = [s \in Sessions |-> 0]
    /\ exch = EmptyDict
    /\ nextMsg = 1
    /\ usedIds = {}
    /\ now = 0
    /\ stopCalls = [s \in Sessions |-> 0]
    /\ teardowns = [s \in Sessions |-> 0]
    /\ attempts = [s \in Sessions |-> NoAttempt]
    /\ done = [msg_id |-> 0, kernel_id |-> "", caller |-> "", rid |-> "",
               result |-> InitResult, log |-> <<>>, exc |-> "none"]
    /\ checked = [op |-> "none"]
    /\ validator = [rules |-> NewValidator, log |-> <<>>]
    /\ net = NoPorts
    /\ raised = {}

SetWorld(w) ==
    /\ kernels' = w.kernels
    /\ container' = w.container
    /\ files' = w.files
    /\ volumes' = w.volumes
    /\ channels' = w.channels
    /\ iopub' = w.iopub
    /\ shell' = w.shell
    /\ emitted' = w.emitted
    /\ stopCalls' = w.stopCalls
    /\ teardowns' = w.teardowns
    /\ attempts' = w.attempts

\* a handler that gave the loop back while it waits for the kernel
LoopFree_Yields == TRUE

\* no handler is running: the event loop is free to start one.  A handler
\* holds the loop from its first statement to its return, the exchange
\* included, because no statement of it awaits
LoopFree == DOMAIN exch = {}

\* the frame of KernelManager.execute_code after client.execute(code)
Frame(id, caller, rid, deps, options) ==
    [kernel_id |-> id, caller |-> caller, rid |-> rid, deps |-> deps,
     options |-> options, result |-> InitResult, log |-> <<>>]

\* execution_options.dict() if execution_options else {}: of the options,
\* the mount points
OptionsDict(options) ==
    IF options.kind = "none" THEN [mount_points |-> <<>>]
    ELSE [mount_points |-> options.mount_points]

\* MountArg with create_session never passing the mount points on
MountArg_Dropped(options) == NoneVal

\* mount_points as create_session passes it to start_kernel: those of the
\* execution options when there are options and they have some, else None
MountArg(options) ==
    IF options.kind # "none" /\ options.mount_points # <<>>
    THEN [kind |-> "list", items |-> options.mount_points]
    ELSE NoneVal

\* the entry create_session registers
SessionEntry(deps, options, at) ==
    [created_at |-> at, last_used |-> at, dependencies |-> deps,
     execution_options |-> OptionsDict(options)]

\* Touch storing a new entry instead of updating the field
Touch_NewEntry(ss, sid, at) ==
    [ss EXCEPT ![sid] = [created_at |-> at, last_used |-> at, dependencies |-> <<>>,
                         execution_options |-> [mount_points |-> <<>>]]]

\* self.sessions[session_id]["last_used"] = utcnow()
Touch(ss, sid, at) == [ss EXCEPT ![sid].last_used = at]

\* the dependency lists create_session is called with
DepLists == {<<>>, <<"requests">>}

\* ------------------------------------------------------------ the kernels

\* the kernel of session s emits a message for the execution it is running
KernelEmit(s, msg) ==
    /\ container[s] = "running"
    /\ s \in channels
    /\ shell[s] # <<>>
    /\ emitted[s] < MaxEmit
    /\ Len(iopub[s]) < MaxChan
    /\ msg \in KernelMsgs(Head(shell[s]))
    /\ iopub' = [iopub EXCEPT ![s] = Append(@, msg)]
    /\ emitted' = [emitted EXCEPT ![s] = @ + 1]
    /\ UNCHANGED <<checked, validator, net, sessions, requests, results, kernels, container, files, volumes,
                   channels, shell, exch, nextMsg, usedIds, now, stopCalls, teardowns,
                   attempts, done, raised>>

\* the kernel of session s emits a message that is not an output of the
\* execution it is running
KernelNotify(s, msg) ==
    /\ container[s] = "running"
    /\ s \in channels
    /\ shell[s] # <<>>
    /\ emitted[s] < MaxEmit
    /\ Len(iopub[s]) < MaxChan
    /\ msg \in SkippedMsgs(Head(shell[s]))
    /\ iopub' = [iopub EXCEPT ![s] = Append(@, msg)]
    /\ emitted' = [emitted EXCEPT ![s] = @ + 1]
    /\ UNCHANGED <<checked, validator, net, sessions, requests, results, kernels, container, files, volumes,
                   channels, shell, exch, nextMsg, usedIds, now, stopCalls, teardowns,
                   attempts, done, raised>>

\* the kernel of session s ends the execution it is running: status idle
KernelIdle(s) ==
    /\ container[s] = "running"
    /\ s \in channels
    /\ shell[s] # <<>>
    /\ Len(iopub[s]) < MaxChan
    /\ iopub' = [iopub EXCEPT ![s] = Append(@, StatusMsg(Head(shell[s]), "idle"))]
    /\ shell' = [shell EXCEPT ![s] = Tail(@)]
    /\ emitted' = [emitted EXCEPT ![s] = 0]
    /\ UNCHANGED <<checked, validator, net, sessions, requests, results, kernels, container, files, volumes,
                   channels, exch, nextMsg, usedIds, now, stopCalls, teardowns, attempts, done,
                   raised>>

\* ------------------------------------------------- CodeExecutionService

\* create_session(deps), uuid4 giving sid: start_kernel, then either the
\* except branch, or the install exchange is submitted, or the entry is
\* registered
CreateSession(sid, deps, options, run, polls, ready, fails) ==
    /\ LoopFree
    /\ sid \notin usedIds
    /\ now < MaxClock
    /\ deps # <<>> => nextMsg <= MaxExec
    /\ usedIds' = usedIds \cup {sid}
    /\ UNCHANGED <<checked, validator, net>>
    /\ LET r == StartKernel(World, sid, MountArg(options), run, polls, ready, fails)
       IN IF r.exc # "none"
          THEN /\ SetWorld(StopKernel(r.w, sid, fails))
               /\ sessions' = IF sid \in DOMAIN sessions THEN Del(sessions, sid)
                              ELSE sessions
               /\ raised' = raised \cup {<<"create_session", sid, r.exc>>}
               /\ UNCHANGED <<requests, results, exch, nextMsg, now, done>>
          ELSE IF deps # <<>>
          THEN /\ SetWorld([r.w EXCEPT !.shell[sid] = Append(@, nextMsg)])
               /\ exch' = Put(exch, nextMsg,
                               Frame(sid, "create_session", "", deps, options))
               /\ nextMsg' = nextMsg + 1
               /\ UNCHANGED <<sessions, requests, results, now, done, raised>>
          ELSE /\ SetWorld(r.w)
               /\ now' = now + 1
               /\ sessions' = Put(sessions, sid, SessionEntry(deps, options, now'))
               /\ raised' = raised
               /\ UNCHANGED <<requests, results, exch, nextMsg, done>>

\* create_execution_request(request), uuid4 giving rid
CreateExecutionRequest(rid, sid) ==
    /\ LoopFree
    /\ rid \notin DOMAIN requests
    /\ now < MaxClock
    /\ IF sid = ""
       THEN /\ raised' = raised \cup {<<"create_execution_request", rid, "ValueError">>}
            /\ UNCHANGED <<requests, now>>
       ELSE /\ now' = now + 1
            /\ requests' = Put(requests, rid,
                               [id |-> rid, session_id |-> sid,
                                status |-> "initializing", created_at |-> now'])
            /\ raised' = raised
    /\ UNCHANGED <<checked, validator, net, sessions, results, kernels, container, files, volumes, channels,
                   iopub, shell, emitted, exch, nextMsg, usedIds, stopCalls, teardowns,
                   attempts, done>>

\* execute_code(rid) up to client.execute: the request is unknown, or the
\* kernel manager raises for a kernel it does not have, or the code is
\* submitted and the exchange starts
ExecuteCode(rid) ==
    /\ LoopFree
    /\ now < MaxClock
    /\ IF rid \notin DOMAIN requests
       THEN /\ raised' = raised
            /\ UNCHANGED <<requests, results, shell, exch, nextMsg, now>>
       ELSE LET sid == requests[rid].session_id
            IN /\ requests' = [requests EXCEPT ![rid].status = "running"]
               /\ IF sid \notin kernels
                  THEN /\ now' = now + 1
                       /\ results' = Put(results, rid,
                                         ExceptResult(<<"Kernel ", sid, " not found">>, now'))
                       /\ raised' = raised
                       /\ UNCHANGED <<shell, exch, nextMsg>>
                  ELSE /\ nextMsg <= MaxExec
                       /\ shell' = [shell EXCEPT ![sid] = Append(@, nextMsg)]
                       /\ exch' = Put(exch, nextMsg,
                                       Frame(sid, "execute_code", rid, <<>>, NoneVal))
                       /\ nextMsg' = nextMsg + 1
                       /\ UNCHANGED <<results, now, raised>>
    /\ UNCHANGED <<checked, validator, net, sessions, kernels, container, files, volumes, channels, iopub,
                   emitted, usedIds, stopCalls, teardowns, attempts, done>>

\* execute_code(rid) when KernelManager.execute_code raises for a kernel it
\* has: client.execute(code) is outside the try of the loop, so what it
\* raises reaches the except branch of execute_code, which stores the error
ExecuteCodeRaises(rid, desc) ==
    /\ LoopFree
    /\ now < MaxClock
    /\ rid \in DOMAIN requests
    /\ requests[rid].session_id \in kernels
    /\ requests' = [requests EXCEPT ![rid].status = "running"]
    /\ now' = now + 1
    /\ results' = Put(results, rid, ExceptResult(<<desc>>, now'))
    /\ raised' = raised
    /\ UNCHANGED <<checked, validator, net, sessions, kernels, container, files, volumes, channels, iopub,
                   shell, exch, nextMsg, emitted, usedIds, stopCalls, teardowns, attempts, done>>

\* create_execution adds one background task per request it created: the
\* task calls execute_code(rid), once
BackgroundTask(rid) ==
    /\ rid \in DOMAIN requests
    /\ requests[rid].status = "initializing"
    /\ ExecuteCode(rid)

\* KernelManager.execute_code returns `result` from the exchange m, the
\* world being w, and the handler that called it runs to its end:
\* execute_code stores the result, create_session registers the session or
\* takes its except branch
Return(m, result, log, exc, w, fails) ==
    LET f == exch[m]
        sid == f.kernel_id
    IN /\ done' = [msg_id |-> m, kernel_id |-> sid, caller |-> f.caller, rid |-> f.rid,
                   result |-> result, log |-> log, exc |-> exc]
       /\ exch' = Del(exch, m)
       /\ IF f.caller = "execute_code"
          THEN /\ now' = now + 1
               /\ IF sid \in DOMAIN sessions
                  THEN /\ sessions' = Touch(sessions, sid, now')
                       /\ results' = Put(results, f.rid, FullResult(result, now'))
                  ELSE /\ sessions' = sessions
                       /\ results' = Put(results, f.rid, ExceptResult(<<sid>>, now'))
               /\ SetWorld(w)
               /\ raised' = raised
          ELSE IF result.status = "error"
          THEN /\ SetWorld(StopKernel(w, sid, fails))
               /\ sessions' = IF sid \in DOMAIN sessions THEN Del(sessions, sid)
                              ELSE sessions
               /\ raised' = raised \cup {<<"create_session", sid, "ValueError">>}
               /\ UNCHANGED <<results, now>>
          ELSE /\ SetWorld(w)
               /\ now' = now + 1
               /\ sessions' = Put(sessions, sid, SessionEntry(f.deps, f.options, now'))
               /\ raised' = raised
               /\ UNCHANGED results
       /\ UNCHANGED <<checked, validator, net, requests, nextMsg, usedIds>>

\* one turn of the while loop of exchange m: get_iopub_msg returns the
\* oldest waiting message
ReadMsg(m, fails) ==
    /\ m \in DOMAIN exch
    /\ LET f == exch[m]
           sid == f.kernel_id
       IN /\ sid \in channels
          /\ iopub[sid] # <<>>
          /\ LET msg == Head(iopub[sid])
                 r == OnMessage(f.result, msg)
                 log == Append(f.log, msg)
                 w == [World EXCEPT !.iopub[sid] = Tail(@)]
             IN IF r.stop
                THEN Return(m, r.result, log, "none", w, fails)
                ELSE /\ exch' = [exch EXCEPT ![m].result = r.result, ![m].log = log]
                     /\ SetWorld(w)
                     /\ UNCHANGED <<checked, validator, net, sessions, requests, results, nextMsg, usedIds,
                                    now, done, raised>>

\* what get_iopub_msg can raise: queue.Empty after the timeout when nothing
\* is waiting, or an error of the channel at any time
ReadErrors(sid) ==
    (IF iopub[sid] = <<>> \/ sid \notin channels THEN {"Empty"} ELSE {})
        \cup {"ChannelError"}

\* one turn of the while loop of exchange m: get_iopub_msg raises
ReadRaise(m, desc, fails) ==
    /\ m \in DOMAIN exch
    /\ desc \in ReadErrors(exch[m].kernel_id)
    /\ LET r == OnException(exch[m].result, desc)
       IN IF r.stop
          THEN Return(m, r.result, exch[m].log, desc, World, fails)
          ELSE /\ exch' = [exch EXCEPT ![m].result = r.result]
               /\ UNCHANGED <<checked, validator, net, sessions, requests, results, kernels,
                              container, files, volumes, channels, iopub, shell, emitted,
                              nextMsg, usedIds, now, stopCalls, teardowns, attempts, done,
                              raised>>

\* Cleanup emptying the whole registry
Cleanup_EverySession(ss, w, sid, fails) ==
    IF sid \in DOMAIN ss
    THEN [sessions |-> << >>, world |-> StopKernel(w, sid, fails)]
    ELSE [sessions |-> ss, world |-> w]

\* Cleanup without the test that the session is registered
Cleanup_NoTest(ss, w, sid, fails) ==
    [sessions |-> Del(ss, sid), world |-> StopKernel(w, sid, fails)]

\* Cleanup without the del of the registry entry
Cleanup_KeepsSession(ss, w, sid, fails) ==
    IF sid \in DOMAIN ss
    THEN [sessions |-> ss, world |-> StopKernel(w, sid, fails)]
    ELSE [sessions |-> ss, world |-> w]

\* cleanup_session(sid) on the registry ss and the world w: both after it
Cleanup(ss, w, sid, fails) ==
    IF sid \in DOMAIN ss
    THEN [sessions |-> Del(ss, sid), world |-> StopKernel(w, sid, fails)]
    ELSE [sessions |-> ss, world |-> w]

\* cleanup_session(sid)
CleanupSession(sid, fails) ==
    /\ LoopFree
    /\ LET c == Cleanup(sessions, World, sid, fails)
       IN /\ sessions' = c.sessions
          /\ SetWorld(c.world)
    /\ raised' = raised
    /\ UNCHANGED <<checked, validator, net, requests, results, exch, nextMsg, usedIds, now, done>>

RECURSIVE CleanupAll(_, _, _, _)
\* for session_id in list(self.sessions.keys()): cleanup_session(session_id),
\* on the ids still to visit
CleanupAll(ids, ss, w, fails) ==
    IF ids = {} THEN [sessions |-> ss, world |-> w]
    ELSE LET sid == CHOOSE x \in ids : TRUE
             c == Cleanup(ss, w, sid, fails)
         IN CleanupAll(ids \ {sid}, c.sessions, c.world, fails)

\* the hook `name` of the process end runs: shutdown_event, or the lambda
\* registered with atexit; each cleans up every session registered when it
\* starts.  `checked` keeps which hook ran last and what it found
ProcessEnd(name, fails) ==
    /\ LoopFree
    /\ LET c == CleanupAll(DOMAIN sessions, sessions, World, fails)
       IN /\ sessions' = c.sessions
          /\ SetWorld(c.world)
    /\ checked' = [op |-> name, found |-> DOMAIN sessions,
                   after |-> IF checked.op = "none" THEN {} ELSE {checked.op}]
    /\ raised' = raised
    /\ UNCHANGED <<validator, net, requests, results, exch, nextMsg, usedIds, now, done>>

\* @app.on_event("shutdown")
ShutdownEvent(fails) == checked.op = "none" /\ ProcessEnd("shutdown_event", fails)

\* atexit, after the shutdown hook or without it
AtExit(fails) == checked.op \in {"none", "shutdown_event"} /\ ProcessEnd("atexit", fails)

\* ------------------------------------------------------- KernelManager alone

\* kernel_manager.start_kernel(id) called on its own, for an id not used before
StartKernelCall(id, mounts, run, polls, ready, fails) ==
    /\ LoopFree
    /\ id \notin usedIds
    /\ usedIds' = usedIds \cup {id}
    /\ LET r == StartKernel(World, id, mounts, run, polls, ready, fails)
       IN /\ SetWorld(r.w)
          /\ raised' = IF r.exc = "none" THEN raised
                       ELSE raised \cup {<<"start_kernel", id, r.exc>>}
    /\ UNCHANGED <<checked, validator, net, sessions, requests, results, exch, nextMsg, now, done>>

\* kernel_manager.stop_kernel(id) called on its own
StopKernelCall(id, fails) ==
    /\ LoopFree
    /\ stopCalls[id] < MaxStop
    /\ SetWorld(StopKernel(World, id, fails))
    /\ raised' = raised
    /\ UNCHANGED <<checked, validator, net, sessions, requests, results, exch, nextMsg, usedIds, now, done>>

\* the steps that may raise in the stop_kernel a handler step makes
FaultsIf(teardown) == IF teardown THEN Faults ELSE {{}}

\* ------------------------------------------------------ models.MountPoint

\* A path is the sequence of its components, a component being a name, "."
\* or "..".  The characters of the names, for the tests made on strings
Chars(name) ==
    CASE name = "etc" -> <<"e", "t", "c">>
      [] name = "etcetera" -> <<"e", "t", "c", "e", "t", "e", "r", "a">>
      [] name = "var" -> <<"v", "a", "r">>
      [] name = "run" -> <<"r", "u", "n">>
      [] name = "tmp" -> <<"t", "m", "p">>
      [] name = "bin" -> <<"b", "i", "n">>
      [] name = "sbin" -> <<"s", "b", "i", "n">>
      [] name = "usr" -> <<"u", "s", "r">>
      [] name = "boot" -> <<"b", "o", "o", "t">>
      [] name = "dev" -> <<"d", "e", "v">>
      [] name = "proc" -> <<"p", "r", "o", "c">>
      [] name = "sys" -> <<"s", "y", "s">>
      [] name = "." -> <<".">>
      [] name = ".." -> <<".", ".">>

RECURSIVE PathStr(_)
\* the string of an absolute path: "/" and the components joined by "/"
PathStr(comps) ==
    IF comps = <<>> THEN <<"/">>
    ELSE IF Len(comps) = 1 THEN <<"/">> \o Chars(comps[1])
    ELSE PathStr(SubSeq(comps, 1, Len(comps) - 1)) \o <<"/">> \o Chars(comps[Len(comps)])

\* str.startswith
StartsWith(str, prefix) ==
    Len(prefix) <= Len(str) /\ SubSeq(str, 1, Len(prefix)) = prefix

RECURSIVE NormPath(_)
\* os.path.abspath of an absolute path: "." dropped, ".." taking the
\* component before it away, ".." at the root dropped
NormPath(comps) ==
    IF comps = <<>> THEN <<>>
    ELSE LET front == NormPath(SubSeq(comps, 1, Len(comps) - 1))
             last == comps[Len(comps)]
         IN IF last = "." THEN front
            ELSE IF last = ".."
            THEN (IF front = <<>> THEN <<>> ELSE SubSeq(front, 1, Len(front) - 1))
            ELSE Append(front, last)

\* restricted_paths of validate_host_path and of validate_container_path
HostRestricted ==
    {<<"etc">>, <<"var">>, <<"bin">>, <<"sbin">>, <<"usr", "bin">>, <<"usr", "sbin">>,
     <<"boot">>, <<"dev">>, <<"proc">>, <<"sys">>}
ContainerRestricted == {<<"etc">>, <<"var", "run">>, <<"proc">>, <<"sys">>}

\* validate_host_path(path), Path(path).exists() being `exists`: the value
\* of the field, or the error
ValidateHostPath(path, exists) ==
    IF ~exists THEN [ok |-> FALSE, error |-> "Host path does not exist"]
    ELSE LET path_obj == NormPath(path)
         IN IF \E r \in HostRestricted : StartsWith(PathStr(path_obj), PathStr(r))
            THEN [ok |-> FALSE, error |-> "Access is restricted"]
            ELSE [ok |-> TRUE, value |-> path_obj]

\* validate_container_path(path), the path starting with "/" or not
ValidateContainerPath(absolute, path) ==
    IF ~absolute THEN [ok |-> FALSE, error |-> "Container path must be absolute"]
    ELSE IF \E r \in ContainerRestricted : StartsWith(PathStr(path), PathStr(r))
    THEN [ok |-> FALSE, error |-> "Cannot mount to this path in container"]
    ELSE [ok |-> TRUE, value |-> path]

\* MountPoint(host_path=..., container_path=...): the model is built when
\* both validators return
NewMountPoint(host, exists, absolute, cont) ==
    LET h == ValidateHostPath(host, exists)
        c == ValidateContainerPath(absolute, cont)
    IN IF h.ok /\ c.ok
       THEN [accepted |-> TRUE, host_path |-> h.value, container_path |-> c.value]
       ELSE [accepted |-> FALSE]

\* the components of the paths tried, and the paths of at most n of them
PathNames == {"etc", "etcetera", "var", "run", "tmp", ".", ".."}
PathsUpTo(n) == UNION {[1..k -> PathNames] : k \in 0..n}

\* MountPoint is constructed from a host path and a container path, as the
\* one model validated in the behaviour
ConstructMountPoint(host, exists, absolute, cont) ==
    /\ checked.op = "none"
    /\ checked' = [op |-> "MountPoint", host_path |-> host, exists |-> exists,
                   absolute |-> absolute, container_path |-> cont,
                   outcome |-> NewMountPoint(host, exists, absolute, cont)]
    /\ UNCHANGED <<sessions, requests, results, kernels, container, files, volumes,
                   channels, iopub, shell, emitted, exch, nextMsg, usedIds, now,
                   stopCalls, teardowns, attempts, done, validator, net, raised>>

\* ------------------------------ security.validators.code, the calls

\* create_validator_with_disabled_rules(disabled).validate_code(code), as
\* the one validation of the behaviour
FactoryValidate(disabled, code, pad) ==
    /\ checked' = [op |-> "validate_code", disabled |-> disabled, code |-> code,
                   pad |-> pad,
                   outcome |-> ValidateCode(CreateValidator(disabled), code)]
    /\ UNCHANGED <<sessions, requests, results, kernels, container, files, volumes,
                   channels, iopub, shell, emitted, exch, nextMsg, usedIds, now,
                   stopCalls, teardowns, attempts, done, validator, net, raised>>

\* ExecutionRequest(code=code, disable_validation=disabled, session_id=...)
ConstructExecutionRequest(disabled, code, pad) ==
    /\ checked' = [op |-> "ExecutionRequest", disabled |-> disabled, code |-> code,
                   pad |-> pad,
                   outcome |-> NewExecutionRequest(code, pad, disabled)]
    /\ UNCHANGED <<sessions, requests, results, kernels, container, files, volumes,
                   channels, iopub, shell, emitted, exch, nextMsg, usedIds, now,
                   stopCalls, teardowns, attempts, done, validator, net, raised>>

\* the frame of a call on the validator
ValidatorFrame ==
    UNCHANGED <<sessions, requests, results, kernels, container, files, volumes,
                channels, iopub, shell, emitted, exch, nextMsg, usedIds, now,
                stopCalls, teardowns, attempts, done, checked, net, raised>>

\* validator.enable_rule(name), logged with its return
EnableRuleCall(name) ==
    /\ Len(validator.log) < MaxCalls
    /\ validator' =
           [rules |-> EnableRule(validator.rules, name),
            log |-> Append(validator.log,
                           [op |-> "enable_rule", name |-> name, code |-> <<>>,
                            out |-> [raises |-> "none"]])]
    /\ ValidatorFrame

\* validator.disable_rule(name), logged with its return
DisableRuleCall(name) ==
    /\ Len(validator.log) < MaxCalls
    /\ validator' =
           [rules |-> DisableRule(validator.rules, name),
            log |-> Append(validator.log,
                           [op |-> "disable_rule", name |-> name, code |-> <<>>,
                            out |-> [raises |-> "none"]])]
    /\ ValidatorFrame

\* validator.validate_code(code), logged with what it returns or raises
ValidateCodeCall(code) ==
    /\ Len(validator.log) < MaxCalls
    /\ validator' =
           [validator EXCEPT !.log =
               Append(@, [op |-> "validate_code", name |-> "", code |-> code,
                          out |-> ValidateCode(validator.rules, code)])]
    /\ ValidatorFrame

\* the rule names and the code strings tried on the one validator
ToggleNames == {"dangerous_imports", "jupyter_commands", "no_such_rule"}
ToggleCodes ==
    {Code(<<"import sys">>), Code(<<"import os">>),
     Code(<<"!pip install requests", "import os">>),
     Code(<<"!rm -rf /", "import sys">>)}

\* the disable_validation lists and the code strings of the requests tried
\* one after the other
RequestLists ==
    {NoneVal} \cup
    {[kind |-> "list", items |-> s] :
        s \in {{"dangerous_imports"}, {"jupyter_commands"}, {"all"}, {"no_such_rule"}}}
RequestCodes == {Code(<<"import sys">>), Code(<<"!rm -rf /", "import sys">>)}

\* ExecutionRequest(code=code, disable_validation=disabled, session_id=...)
\* as one of the requests the server receives: validate_code builds its own
\* validator unless "all" is disabled, and what the construction returns or
\* raises is logged; rules holds the validator the request built last
ValidateRequest(code, disabled) ==
    /\ Len(validator.log) < MaxCalls
    /\ validator' =
           [rules |-> IF disabled.kind # "none" /\ "all" \in disabled.items
                      THEN validator.rules
                      ELSE CreateValidator(disabled),
            log |-> Append(validator.log,
                           [op |-> "ExecutionRequest", name |-> "", code |-> code,
                            disabled |-> disabled,
                            out |-> NewExecutionRequest(code, 0, disabled)])]
    /\ ValidatorFrame

\* the version specifiers tried: none, exact pins, ranges of one and of two
\* clauses, and one with a text that is no version
Clause(op, ver) == [op |-> op, ver |-> ver]
SpecsTried ==
    {<<>>,
     <<Clause("==", <<8, 0, 0>>)>>, <<Clause("==", <<9, 0, 0>>)>>,
     <<Clause("==", <<9, 2, 0>>)>>, <<Clause("==", <<1, 20, 0>>)>>,
     <<Clause("<", <<9, 0, 0>>)>>, <<Clause(">=", <<1, 0, 0>>)>>,
     <<Clause(">=", <<9, 0, 0>>)>>, <<Clause("<", <<1, 0, 0>>)>>,
     <<Clause(">=", <<1, 22, 2>>)>>,
     <<Clause(">", <<9, 0, 0>>), Clause("<", <<10, 0, 0>>)>>,
     <<Clause(">=", <<>>)>>}

\* the packages tried: names with and without a registered minimum, in
\* several casings, under every specifier tried; and every blocked name, as
\* the module has it, some also in other casings and with a pin
PackagesTried ==
    {[name |-> n, spec |-> sp] :
        n \in {"pillow", "PILLOW", "Pillow", "numpy", "six"}, sp \in SpecsTried}
    \cup {[name |-> n, spec |-> sp] :
        n \in {"flask", "Flask", "FLASK", "cx_Freeze", "cx_freeze", "CX_FREEZE"},
        sp \in {<<>>, <<Clause("==", <<1, 0, 0>>)>>}}
    \cup {Word(n) : n \in blocked_packages}

\* the install commands and the allow lists tried
InstallHows == {"pip", "python -m pip", "conda"}
AllowLists == {{}, {"flask", "cx_Freeze", "pillow"}}

\* validate_code("!<how> install <packages>") on a validator with every rule
\* enabled, and the package rule alone under an allow list, as the one
\* validation of the behaviour
InstallPackages(how, packages, allowed) ==
    /\ checked' = [op |-> "install", how |-> how, packages |-> packages,
                   allowed_packages |-> allowed,
                   rule |-> ValidatePackages(<<InstallLine(how, packages)>>, allowed),
                   outcome |-> ValidateCode(NewValidator, <<InstallLine(how, packages)>>)]
    /\ UNCHANGED <<sessions, requests, results, kernels, container, files, volumes,
                   channels, iopub, shell, emitted, exch, nextMsg, usedIds, now,
                   stopCalls, teardowns, attempts, done, validator, net, raised>>

\* ------------------------------------- execute_code, the translation alone

\* the raw outputs KernelManager.execute_code can append: a stream output,
\* or a rendered value with the known representations its message had
OutputKinds ==
    {[type |-> "stream", mimes |-> {}]}
        \cup {[type |-> t, mimes |-> ms] :
                 t \in {"execute_result", "display_data"}, ms \in SUBSET KnownMimes}

\* the raw output of kind k appended as the i-th: its text or its data name i
RawOf(k, i) ==
    IF k.type = "stream"
    THEN [type |-> "stream", name |-> "stdout", text |-> <<"text", i>>]
    ELSE [type |-> k.type, data |-> [m \in k.mimes |-> <<m, i>>]]

\* the results KernelManager.execute_code can return with the outputs raw
ExchangeResults(raw) ==
    { [status |-> "completed", outputs |-> raw, error |-> NoneVal],
      [status |-> "error", outputs |-> raw,
       error |-> [kind |-> "dict", ename |-> "NameError", evalue |-> <<"evalue", 1>>,
                  traceback |-> <<"Traceback", 1>>]],
      [status |-> "error", outputs |-> raw,
       error |-> [kind |-> "str", text |-> <<"Execution error: ", "Empty">>]] }

\* execute_code of a request on a registered session, the kernel manager
\* returning `result`: the record it assigns to self.results[request_id]
StoreResult(result) ==
    /\ checked' = [op |-> "execute_code", raw |-> result, stored |-> FullResult(result, now + 1)]
    /\ UNCHANGED <<sessions, requests, results, kernels, container, files, volumes,
                   channels, iopub, shell, emitted, exch, nextMsg, usedIds, now,
                   stopCalls, teardowns, attempts, done, validator, net, raised>>

\* ------------------------------------------- mcp_server, the execute_code tool

\* the reloads of a container that runs from the start
AllRunning == [i \in 1..AtRemove |-> "running"]

\* the mount_dirs the server is configured with: none, a directory that
\* exists, one that does not, and one under /etc after a good one
McpDirs ==
    { <<>>,
      <<[path |-> <<"tmp">>, exists |-> TRUE]>>,
      <<[path |-> <<"tmp">>, exists |-> FALSE]>>,
      <<[path |-> <<"tmp">>, exists |-> TRUE], [path |-> <<"etc">>, exists |-> TRUE]>> }

RECURSIVE CreateMountPoints(_)
\* _create_mount_points(): a MountPoint per configured directory, mounted
\* at its own path, or the error of the first MountPoint that is refused
CreateMountPoints(dirs) ==
    IF dirs = <<>> THEN [raises |-> "none", items |-> <<>>]
    ELSE LET mp == NewMountPoint(Head(dirs).path, Head(dirs).exists, TRUE, Head(dirs).path)
             rest == CreateMountPoints(Tail(dirs))
         IN IF ~mp.accepted THEN [raises |-> "ValidationError", items |-> <<>>]
            ELSE IF rest.raises # "none" THEN rest
            ELSE [raises |-> "none",
                  items |-> <<[host_path |-> mp.host_path,
                               container_path |-> mp.container_path,
                               read_only |-> TRUE]>> \o rest.items]

\* the list the except branch of the tool returns for the exception exc
ErrorContents(exc) == <<[type |-> "text", text |-> <<"Error: ", exc>>]>>

\* the contents the tool makes of a stored result: a text per output, an
\* image per file, a text for the error if there is one, "No output." if
\* that leaves nothing
ToolContents(result) ==
    LET outs == IF "output" \in DOMAIN result THEN result.output ELSE <<>>
        fls == IF "files" \in DOMAIN result THEN result.files ELSE <<>>
        texts == [i \in 1..Len(outs) |-> [type |-> "text", text |-> outs[i].content]]
        images == [i \in 1..Len(fls) |-> [type |-> "image", data |-> fls[i]]]
        err == IF "error" \in DOMAIN result /\ result.error # NoneVal
               THEN <<[type |-> "text", text |-> <<"Error: ", result.error>>]>>
               ELSE <<>>
        all == texts \o images \o err
    IN IF all = <<>> THEN <<[type |-> "text", text |-> "No output."]>> ELSE all

\* the finally block of the tool: `if session_id: cleanup_session(session_id)`,
\* session_id being a local that is unbound until the statement after
\* _create_mount_points() assigns it
ToolFinally(session_id, ss, w, fails) ==
    IF session_id = "unbound"
    THEN [raises |-> "UnboundLocalError", sessions |-> ss, world |-> w]
    ELSE IF session_id = "None"
    THEN [raises |-> "none", sessions |-> ss, world |-> w]
    ELSE LET c == Cleanup(ss, w, session_id, fails)
         IN [raises |-> "none", sessions |-> c.sessions, world |-> c.world]

\* the tool has run its try and except blocks with the local session_id,
\* the registry ss, the world w, and `contents` to return: the finally block
\* runs, and the tool returns or raises
ToolEnds(sid, session_id, ss, w, contents, fails) ==
    LET f == ToolFinally(session_id, ss, w, fails)
    IN /\ sessions' = f.sessions
       /\ SetWorld(f.world)
       /\ checked' = [op |-> "mcp.execute_code", session_id |-> session_id,
                      raises |-> f.raises,
                      returns |-> IF f.raises = "none" THEN contents ELSE <<>>]
       /\ raised' = IF f.raises = "none" THEN raised
                    ELSE raised \cup {<<"mcp.execute_code", sid, f.raises>>}

\* one invocation of the tool execute_code(code, dependencies), uuid4 giving
\* sid and rid; the exchanges with the kernel are taken by their results:
\* `install` for the dependencies, `result` for the code, `submit` telling
\* whether KernelManager.execute_code raised instead
McpExecuteCode(sid, rid, dirs, deps, run, ready, install, code, result, submit, fails) ==
    /\ LoopFree
    /\ now < MaxClock
    /\ sid \notin usedIds
    /\ rid \notin DOMAIN requests
    /\ LET mp == CreateMountPoints(dirs)
           options == IF mp.items # <<>> THEN [kind |-> "options", mount_points |-> mp.items]
                      ELSE NoneVal
           r == StartKernel(World, sid, MountArg(options), run, AllRunning, ready, fails)
           exc == IF r.exc # "none" THEN r.exc
                  ELSE IF deps # <<>> /\ install = "error" THEN "ValueError"
                  ELSE "none"
           req == RequestValidateCode(code, NoneVal)
           registered == Put(sessions, sid, SessionEntry(deps, options, now + 1))
           stored == IF submit = "raise" THEN ExceptResult(<<"fail">>, now + 3)
                     ELSE FullResult(result, now + 3)
       IN IF mp.raises # "none"
          THEN \* the try block ended before session_id = None
               /\ ToolEnds(sid, "unbound", sessions, World, ErrorContents(mp.raises), fails)
               /\ UNCHANGED <<requests, results, usedIds, now>>
          ELSE IF exc # "none"
          THEN \* create_session raised after its own cleanup
               /\ ToolEnds(sid, "None", sessions, StopKernel(r.w, sid, fails),
                           ErrorContents(exc), fails)
               /\ usedIds' = usedIds \cup {sid}
               /\ UNCHANGED <<requests, results, now>>
          ELSE IF req.raises # "none"
          THEN \* ExecutionRequest(session_id=..., code=code) refused the code
               /\ ToolEnds(sid, sid, registered, r.w, ErrorContents(req.raises), fails)
               /\ usedIds' = usedIds \cup {sid}
               /\ now' = now + 1
               /\ UNCHANGED <<requests, results>>
          ELSE /\ ToolEnds(sid, sid,
                           IF submit = "raise" THEN registered
                           ELSE Touch(registered, sid, now + 3),
                           r.w, ToolContents(stored), fails)
               /\ usedIds' = usedIds \cup {sid}
               /\ now' = now + 3
               /\ requests' = Put(requests, rid,
                                   [id |-> rid, session_id |-> sid, status |-> "running",
                                    created_at |-> now + 2])
               /\ results' = Put(results, rid, stored)
    /\ UNCHANGED <<validator, net, exch, nextMsg, done>>

\* ------------------------------------------------------- specifications

\* The service with everything its environment can do to a session: docker
\* failing to run the container, the container never running, the channel
\* never ready, teardown steps raising.  The kernels answer an execution with
\* at most an error message and the closing idle status.
Next ==
    \/ \E s \in Sessions :
           KernelEmit(s, ErrorMsg(IF shell[s] = <<>> THEN 0 ELSE Head(shell[s])))
    \/ \E s \in Sessions : KernelIdle(s)
    \/ \E sid \in NewIds, deps \in DepLists, run \in RunOutcomes :
         \E polls \in (IF run = "started" THEN PollSeqs ELSE {AllRunning}) :
           \E ready \in (IF run = "started" /\ BreakAt(polls) # 0 THEN ReadyOutcomes
                         ELSE {"ready"}) :
             \E fails \in FaultsIf(ready # "ready") :
               CreateSession(sid, deps, NoneVal, run, polls, ready, fails)
    \/ \E rid \in Requests, sid \in Sessions \cup {""} : CreateExecutionRequest(rid, sid)
    \/ \E rid \in Requests : ExecuteCode(rid)
    \/ \E m \in DOMAIN exch :
           \E fails \in FaultsIf(exch[m].caller = "create_session") : ReadMsg(m, fails)
    \/ \E m \in DOMAIN exch, desc \in {"Empty", "ChannelError"} :
           \E fails \in FaultsIf(exch[m].caller = "create_session") :
               ReadRaise(m, desc, fails)
    \/ \E sid \in Sessions :
           \E fails \in FaultsIf(sid \in DOMAIN sessions) : CleanupSession(sid, fails)

Spec == Init /\ [][Next]_vars

\* The protocol exchange with everything a kernel can emit, on sessions
\* whose environment started and stays up, each request being executed by
\* the background task of the HTTP handler that created it.
NextExchange ==
    \/ \E s \in Sessions :
         \E msg \in KernelMsgs(IF shell[s] = <<>> THEN 0 ELSE Head(shell[s])) :
           KernelEmit(s, msg)
    \/ \E s \in Sessions : KernelIdle(s)
    \/ \E sid \in NewIds : CreateSession(sid, <<>>, NoneVal, "started", AllRunning, "ready", {})
    \/ \E rid \in Requests, sid \in NewIds : CreateExecutionRequest(rid, sid)
    \/ \E rid \in Requests : BackgroundTask(rid)
    \/ \E m \in DOMAIN exch : ReadMsg(m, {})
    \/ \E m \in DOMAIN exch, desc \in {"Empty", "ChannelError"} : ReadRaise(m, desc, {})

SpecExchange == Init /\ [][NextExchange]_vars

\* one turn of the while loop of exchange m, whatever the read does
LoopTurn(m) ==
    \/ ReadMsg(m, {})
    \/ \E desc \in {"Empty", "ChannelError"} : ReadRaise(m, desc, {})

\* The protocol exchange of one request, with everything a kernel can emit,
\* when every read of the channel returns a message or raises within its
\* timeout: the loop of an exchange in flight takes its next turn.  The
\* kernel emits at most MaxEmit messages before the idle status.
NextExchangeLive ==
    \/ \E s \in Sessions :
         \E msg \in KernelMsgs(IF shell[s] = <<>> THEN 0 ELSE Head(shell[s])) :
           KernelEmit(s, msg)
    \/ \E s \in Sessions : KernelIdle(s)
    \/ \E sid \in NewIds : CreateSession(sid, <<>>, NoneVal, "started", AllRunning, "ready", {})
    \/ \E sid \in NewIds : CreateExecutionRequest("r1", sid)
    \/ BackgroundTask("r1")
    \/ \E m \in DOMAIN exch : LoopTurn(m)

SpecExchangeLive ==
    Init /\ [][NextExchangeLive]_vars /\ \A m \in 1..MaxExec : WF_vars(LoopTurn(m))

\* The sessions alone: create_session with everything its environment can
\* do, for every id uuid4 can give, the install exchange, and
\* cleanup_session of any id; no execution request is made.
NextSessions ==
    \/ \E s \in Sessions :
           KernelEmit(s, ErrorMsg(IF shell[s] = <<>> THEN 0 ELSE Head(shell[s])))
    \/ \E s \in Sessions : KernelIdle(s)
    \/ \E sid \in Sessions, deps \in DepLists, run \in RunOutcomes :
         \E polls \in (IF run = "started" THEN PollSeqs ELSE {AllRunning}) :
           \E ready \in (IF run = "started" /\ BreakAt(polls) # 0 THEN ReadyOutcomes
                         ELSE {"ready"}) :
             \E fails \in FaultsIf(ready # "ready") :
               CreateSession(sid, deps, NoneVal, run, polls, ready, fails)
    \/ \E m \in DOMAIN exch :
           \E fails \in FaultsIf(exch[m].caller = "create_session") : ReadMsg(m, fails)
    \/ \E m \in DOMAIN exch, desc \in {"Empty", "ChannelError"} :
           \E fails \in FaultsIf(exch[m].caller = "create_session") :
               ReadRaise(m, desc, fails)
    \/ \E sid \in Sessions :
           \E fails \in FaultsIf(sid \in DOMAIN sessions) : CleanupSession(sid, fails)

SpecSessions == Init /\ [][NextSessions]_vars

\* The protocol exchange of one request with a kernel that, between its
\* outputs, emits messages execute_code has no branch for.
NextSkipped ==
    \/ \E s \in Sessions :
         \E msg \in SkippedMsgs(IF shell[s] = <<>> THEN 0 ELSE Head(shell[s])) :
           KernelNotify(s, msg)
    \/ \E s \in Sessions :
         \E msg \in {StreamMsg(IF shell[s] = <<>> THEN 0 ELSE Head(shell[s])),
                     ErrorMsg(IF shell[s] = <<>> THEN 0 ELSE Head(shell[s]))} :
           KernelEmit(s, msg)
    \/ \E s \in Sessions : KernelIdle(s)
    \/ \E sid \in NewIds : CreateSession(sid, <<>>, NoneVal, "started", AllRunning, "ready", {})
    \/ \E sid \in NewIds : CreateExecutionRequest("r1", sid)
    \/ BackgroundTask("r1")
    \/ \E m \in DOMAIN exch : ReadMsg(m, {})
    \/ \E m \in DOMAIN exch, desc \in {"Empty", "ChannelError"} : ReadRaise(m, desc, {})

SpecSkipped == Init /\ [][NextSkipped]_vars

\* Executions on one session with every outcome the exchange can have: it
\* completes, the kernel reports an error, a read times out or raises, or
\* the submission of the code raises.
NextOutcomes ==
    \/ \E s \in Sessions :
           KernelEmit(s, ErrorMsg(IF shell[s] = <<>> THEN 0 ELSE Head(shell[s])))
    \/ \E s \in Sessions : KernelIdle(s)
    \/ \E sid \in NewIds : CreateSession(sid, <<>>, NoneVal, "started", AllRunning, "ready", {})
    \/ \E rid \in Requests, sid \in NewIds : CreateExecutionRequest(rid, sid)
    \/ \E rid \in Requests : ExecuteCode(rid)
    \/ \E rid \in Requests : ExecuteCodeRaises(rid, "fail")
    \/ \E m \in DOMAIN exch : ReadMsg(m, {})
    \/ \E m \in DOMAIN exch, desc \in {"Empty", "ChannelError"} : ReadRaise(m, desc, {})
    \/ \E sid \in Sessions : CleanupSession(sid, {})

SpecOutcomes == Init /\ [][NextOutcomes]_vars

\* The service with two sessions until the process ends: the handlers run
\* while the application is up, then the shutdown hook and the atexit hook.
NextShutdown ==
    \/ \E s \in Sessions :
           KernelEmit(s, ErrorMsg(IF shell[s] = <<>> THEN 0 ELSE Head(shell[s])))
    \/ \E s \in Sessions : KernelIdle(s)
    \/ /\ checked.op = "none"
       /\ \/ \E sid \in Sessions, deps \in DepLists, run \in RunOutcomes :
               \E ready \in (IF run = "started" THEN ReadyOutcomes ELSE {"ready"}) :
                 \E fails \in {{}, TeardownSteps} :
                   CreateSession(sid, deps, NoneVal, run, AllRunning, ready, fails)
          \/ \E sid \in Sessions : CreateExecutionRequest("r1", sid)
          \/ ExecuteCode("r1")
          \/ \E sid \in Sessions, fails \in {{}, TeardownSteps} : CleanupSession(sid, fails)
    \/ \E m \in DOMAIN exch, fails \in {{}, TeardownSteps} : ReadMsg(m, fails)
    \/ \E m \in DOMAIN exch, desc \in {"Empty", "ChannelError"} :
           \E fails \in {{}, TeardownSteps} : ReadRaise(m, desc, fails)
    \/ \E fails \in {{}, TeardownSteps} : ShutdownEvent(fails)
    \/ \E fails \in {{}, TeardownSteps} : AtExit(fails)

SpecShutdown == Init /\ [][NextShutdown]_vars

\* The ports of the kernels: start_kernel probes five ports and runs the
\* container on them, one start_kernel at a time in this process, while
\* other processes of the host bind and close ports at any moment.
NextPorts ==
    \/ \E id \in Sessions : BeginStart(id)
    \/ \E id \in Sessions, p \in Ports : FindFreePort(id, p)
    \/ \E id \in Sessions : RunContainer(id)
    \/ \E id \in Sessions : StopContainer(id)
    \/ \E p \in Ports : OtherBinds(p)
    \/ \E p \in Ports : OtherCloses(p)

SpecPorts == Init /\ [][NextPorts]_vars

\* One invocation of the MCP tool, with every way its steps can fail: a
\* configured directory refused, the container or the channel not starting,
\* the install failing, the code refused, the execution failing or raising.
NextMcp ==
    /\ checked.op = "none"
    /\ \E sid \in NewIds, dirs \in McpDirs, deps \in DepLists, run \in RunOutcomes,
          ready \in ReadyOutcomes, install \in {"completed", "error"}, code \in ToggleCodes,
          submit \in {"return", "raise"}, fails \in {{}, TeardownSteps} :
         \E kinds \in UNION {[1..k -> {[type |-> "stream", mimes |-> {}],
                                      [type |-> "execute_result", mimes |-> {"text/html"}],
                                      [type |-> "display_data",
                                       mimes |-> {"image/png", "text/plain"}]}] :
                               k \in 0..MaxOutputs} :
           \E result \in ExchangeResults([i \in 1..Len(kinds) |-> RawOf(kinds[i], i)]) :
             McpExecuteCode(sid, "r1", dirs, deps, run, ready, install, code, result,
                            submit, fails)

SpecMcp == Init /\ [][NextMcp]_vars

\* The service with two sessions side by side: either id can be created,
\* with docker failing to run the container, the channel not getting ready
\* and every teardown step working or every one raising; a request can name
\* either session, and each session can be executed on and cleaned up while
\* the other lives.
NextIsolation ==
    \/ \E s \in Sessions :
           KernelEmit(s, ErrorMsg(IF shell[s] = <<>> THEN 0 ELSE Head(shell[s])))
    \/ \E s \in Sessions : KernelIdle(s)
    \/ \E sid \in Sessions, deps \in DepLists, run \in RunOutcomes :
         \E ready \in (IF run = "started" THEN ReadyOutcomes ELSE {"ready"}) :
           \E fails \in {{}, TeardownSteps} :
             CreateSession(sid, deps, NoneVal, run, AllRunning, ready, fails)
    \/ \E sid \in Sessions : CreateExecutionRequest("r1", sid)
    \/ ExecuteCode("r1")
    \/ \E m \in DOMAIN exch, fails \in {{}, TeardownSteps} : ReadMsg(m, fails)
    \/ \E m \in DOMAIN exch, desc \in {"Empty", "ChannelError"} :
           \E fails \in {{}, TeardownSteps} : ReadRaise(m, desc, fails)
    \/ \E sid \in Sessions, fails \in {{}, TeardownSteps} : CleanupSession(sid, fails)

SpecIsolation == Init /\ [][NextIsolation]_vars

\* The kernel manager alone, as its callers and its tests use it:
\* start_kernel for a new id with everything docker and the channel can do,
\* the teardown inside start_kernel finding every step working, and
\* stop_kernel of any id with steps raising.
NextKernels ==
    \/ \E id \in Sessions, run \in RunOutcomes :
         \E polls \in (IF run = "started" THEN PollSeqs ELSE {AllRunning}) :
           \E ready \in (IF run = "started" /\ BreakAt(polls) # 0 THEN ReadyOutcomes
                         ELSE {"ready"}) :
             StartKernelCall(id, NoneVal, run, polls, ready, {})
    \/ \E id \in Sessions :
           \E fails \in FaultsIf(id \in kernels) : StopKernelCall(id, fails)

SpecKernels == Init /\ [][NextKernels]_vars

\* the mount points a session can declare: validated host paths, container
\* paths, either mode
MountPoints ==
    [host_path : {"/host/path1", "/host/path2"},
     container_path : {"/container/path1", "/container/path2"},
     read_only : BOOLEAN]

\* the lists of at most two mount points, on different host paths
MountLists ==
    {<<>>} \cup {<<a>> : a \in MountPoints}
           \cup {l \in [1..2 -> MountPoints] : l[1].host_path # l[2].host_path}

\* the execution options create_session is called with: None, or options
\* with a list of mount points
OptionSets == {NoneVal} \cup {[kind |-> "options", mount_points |-> l] : l \in MountLists}

\* Sessions with mount points: create_session with any execution options on
\* an environment that starts, and cleanup_session.
NextMounts ==
    \/ \E sid \in Sessions, options \in OptionSets :
           CreateSession(sid, <<>>, options, "started", AllRunning, "ready", {})
    \/ \E sid \in Sessions : CleanupSession(sid, {})

SpecMounts == Init /\ [][NextMounts]_vars

\* components at most in a host path and in a container path tried
MaxHostLen == 2
MaxContLen == 3

\* The validation of mount points: MountPoint constructed from any host
\* path, existing or not, and any container path, absolute or not.
NextMountPoint ==
    /\ checked.op = "none"
    /\ \E host \in PathsUpTo(MaxHostLen), exists \in BOOLEAN,
          absolute \in BOOLEAN, cont \in PathsUpTo(MaxContLen) :
           ConstructMountPoint(host, exists, absolute, cont)

SpecMountPoint == Init /\ [][NextMountPoint]_vars

\* The validation of code: a validator built by the factory validates a
\* code string, or an ExecutionRequest is constructed, for any list of
\* disabled rules.
NextValidator ==
    /\ checked.op = "none"
    /\ \E disabled \in DisabledLists, code \in CodesUpTo(MaxLines), pad \in Pads :
           \/ FactoryValidate(disabled, code, pad)
           \/ ConstructExecutionRequest(disabled, code, pad)

SpecValidator == Init /\ [][NextValidator]_vars

\* The requests of a server: execution requests are constructed one after
\* the other, each with its own code and disable_validation list.
NextRequests ==
    \E code \in RequestCodes, disabled \in RequestLists : ValidateRequest(code, disabled)

SpecRequests == Init /\ [][NextRequests]_vars

\* One validator over its life: rules are enabled and disabled by name and
\* code is validated, in any order.
NextRules ==
    \/ \E name \in ToggleNames : EnableRuleCall(name)
    \/ \E name \in ToggleNames : DisableRuleCall(name)
    \/ \E code \in ToggleCodes : ValidateCodeCall(code)

SpecRules == Init /\ [][NextRules]_vars

\* Package installation: one install command of up to MaxPackages packages
\* is validated.
NextPackages ==
    /\ checked.op = "none"
    /\ \E how \in InstallHows, allowed \in AllowLists,
          packages \in UNION {[1..k -> PackagesTried] : k \in 0..MaxPackages} :
           InstallPackages(how, packages, allowed)

SpecPackages == Init /\ [][NextPackages]_vars

\* The translation of an exchange result into the stored result, for every
\* sequence of raw outputs up to MaxOutputs, as the one call of the behaviour.
NextTranslate ==
    /\ checked.op = "none"
    /\ \E kinds \in UNION {[1..k -> OutputKinds] : k \in 0..MaxOutputs} :
         \E result \in ExchangeResults([i \in 1..Len(kinds) |-> RawOf(kinds[i], i)]) :
           StoreResult(result)

SpecTranslate == Init /\ [][NextTranslate]_vars

\* ------------------------------------------------------------- the claims

\* the raw output a stream or rendered-value message stands for
IsOutputMsg(msg) == msg.msg_type \in {"stream", "execute_result", "display_data"}

RawOutput(msg) ==
    IF msg.msg_type = "stream"
    THEN [type |-> "stream", name |-> msg.content.name, text |-> msg.content.text]
    ELSE [type |-> msg.msg_type, data |-> OutputData(msg.content.data)]

\* the outputs of the stream and rendered-value messages of a log, in order
OutputsOf(log) ==
    LET sel == SelectSeq(log, IsOutputMsg)
    IN [i \in 1..Len(sel) |-> RawOutput(sel[i])]

IsIdle(msg) == msg.msg_type = "status" /\ msg.content.execution_state = "idle"
IsError(msg) == msg.msg_type = "error"

\* the log without its last message
Front(log) == SubSeq(log, 1, Len(log) - 1)

\* an exchange has returned
Returned == done.msg_id # 0

\* C1: every message an exchange reads, and so every output, error and
\* terminal status of its result, was emitted for its own execution: no
\* message left unread by an earlier exchange is consumed by a later one.
C1_OwnMessagesOnly ==
    /\ \A m \in DOMAIN exch :
           \A i \in 1..Len(exch[m].log) : exch[m].log[i].parent = m
    /\ \A i \in 1..Len(done.log) : done.log[i].parent = done.msg_id

\* C2: at most one protocol exchange is in flight per session.
C2_OneExchangePerSession ==
    \A s \in Sessions : Cardinality({m \in DOMAIN exch : exch[m].kernel_id = s}) <= 1

\* C2, its case: an exchange is in flight on a session while another request
\* of the same session waits to be executed
C2_Witness ==
    \E m \in DOMAIN exch : \E r \in DOMAIN requests :
        /\ exch[m].caller = "execute_code"
        /\ r # exch[m].rid
        /\ requests[r].session_id = exch[m].kernel_id
        /\ requests[r].status = "initializing"

\* C3: an exchange that reads an error message ends with it: the error is
\* the last message read, the result has status error and the message's
\* ename, evalue and traceback, and its outputs are the stream and
\* rendered-value messages read before the error, in order; an exchange
\* still reading has read no error message.
C3_ErrorEndsExchange ==
    /\ \A m \in DOMAIN exch :
           \A i \in 1..Len(exch[m].log) : ~IsError(exch[m].log[i])
    /\ (Returned /\ \E i \in 1..Len(done.log) : IsError(done.log[i])) =>
           LET last == done.log[Len(done.log)]
           IN /\ IsError(last)
              /\ \A i \in 1..(Len(done.log) - 1) : ~IsError(done.log[i])
              /\ done.exc = "none"
              /\ done.result.status = "error"
              /\ done.result.error = [kind |-> "dict", ename |-> last.content.ename,
                                      evalue |-> last.content.evalue,
                                      traceback |-> last.content.traceback]
              /\ done.result.outputs = OutputsOf(Front(done.log))

\* C3, its case: the messages [stream, error, stream] of one execution, of
\* which the exchange read the first two and returned one stream output
C3_Witness ==
    /\ Returned
    /\ Len(done.log) = 2
    /\ done.log[1].msg_type = "stream"
    /\ IsError(done.log[2])
    /\ Len(done.result.outputs) = 1
    /\ iopub[done.kernel_id] # <<>>
    /\ Head(iopub[done.kernel_id]).msg_type = "stream"
    /\ Head(iopub[done.kernel_id]).parent = done.msg_id

\* C4: an exchange returns status completed exactly when the last message it
\* read is an idle status; then error is None and the outputs are the stream
\* and rendered-value messages read before it, in order.  Otherwise the
\* status is error and error is not None.
C4_CompletedIffIdle ==
    Returned =>
        LET byIdle == /\ done.exc = "none"
                      /\ done.log # <<>>
                      /\ IsIdle(done.log[Len(done.log)])
        IN /\ (done.result.status = "completed") <=> byIdle
           /\ byIdle => /\ done.result.error = NoneVal
                        /\ done.result.outputs = OutputsOf(Front(done.log))
                        /\ \A i \in 1..(Len(done.log) - 1) : ~IsIdle(done.log[i])
           /\ ~byIdle => /\ done.result.status = "error"
                         /\ done.result.error # NoneVal

\* C4, its case: an exchange ended by idle after a non-idle status, a stream
\* and a rendered value
C4_Witness ==
    /\ Returned
    /\ done.result.status = "completed"
    /\ Len(done.result.outputs) = 2
    /\ \E i \in 1..Len(done.log) :
           done.log[i].msg_type = "status" /\ ~IsIdle(done.log[i])

\* C5: an exchange whose read raised returns at once with status error, the
\* error "Execution error: <description>" and the outputs collected before;
\* the exception does not reach the caller, whose handler goes on as after
\* any return: execute_code stores the full result.
C5_State ==
    (Returned /\ done.exc # "none") =>
        /\ done.msg_id \notin DOMAIN exch
        /\ done.result.status = "error"
        /\ done.result.error = [kind |-> "str", text |-> <<"Execution error: ", done.exc>>]
        /\ done.result.outputs = OutputsOf(done.log)

C5_Step ==
    \A m \in DOMAIN exch :
        (m \notin DOMAIN exch' /\ done'.exc # "none" /\ exch[m].caller = "execute_code"
            /\ exch[m].kernel_id \in DOMAIN sessions)
        => /\ exch[m].rid \in DOMAIN results'
           /\ results'[exch[m].rid].status = "error"
           /\ results'[exch[m].rid].error = done'.result.error
           /\ "output" \in DOMAIN results'[exch[m].rid]
           /\ raised' = raised

\* C5: a read that times out or raises never escapes execute_code: the
\* exchange ends with a result of status error whose error is the synthetic
\* string, the outputs read before it are kept, and the service stores it
C5_ReadFailureIsResult == []C5_State /\ [][C5_Step]_vars

\* C5, its case: a read timed out after an output had been collected
C5_Witness ==
    /\ Returned
    /\ done.exc = "Empty"
    /\ Len(done.result.outputs) = 1
    /\ done.rid \in DOMAIN results
    /\ results[done.rid].error = done.result.error

\* the keys of a Result
ResultKeys == {"status", "output", "error", "files", "completed_at"}

\* C6: execute_code never raises, and every result it stores, the one of
\* its except branch included, has the full shape of a Result, so that
\* get_execution_results answers for it.
C6_ResultsHaveFullShape ==
    /\ \A x \in raised : x[1] # "execute_code"
    /\ \A r \in DOMAIN results :
           /\ DOMAIN results[r] = ResultKeys
           /\ GetResults(results, r).raises = "none"

\* the frame of C7: the session registry but for last_used, the kernel
\* entries, the containers, the channels, the files and the teardown counts
SessionsButLastUsed(ss) ==
    [s \in DOMAIN ss |-> [created_at |-> ss[s].created_at,
                          dependencies |-> ss[s].dependencies,
                          execution_options |-> ss[s].execution_options]]

\* C7: a step that stores an error result for a request leaves the session
\* as it was but for last_used: the registry entry and the kernel entry are
\* kept, the container, the channel and the descriptor files are untouched
\* and no teardown ran.
C7_Step ==
    (\E r \in DOMAIN results' :
         /\ r \notin DOMAIN results \/ results'[r] # results[r]
         /\ results'[r].status = "error")
    => /\ SessionsButLastUsed(sessions') = SessionsButLastUsed(sessions)
       /\ kernels' = kernels
       /\ container' = container
       /\ channels' = channels
       /\ files' = files
       /\ stopCalls' = stopCalls
       /\ teardowns' = teardowns

\* C7: an execution that stores an error result leaves the session
\* registered and its kernel, container, channels and files as they were;
\* nothing is stopped
C7_ErrorLeavesSession == [][C7_Step]_vars

\* C7, its case: an execution ended in an error result on a session that is
\* registered and has its kernel entry, and was never torn down
C7_Witness ==
    \E r \in DOMAIN results :
        /\ results[r].status = "error"
        /\ "output" \in DOMAIN results[r]
        /\ requests[r].session_id \in DOMAIN sessions
        /\ requests[r].session_id \in kernels
        /\ sessions[requests[r].session_id].last_used
               > sessions[requests[r].session_id].created_at
        /\ teardowns[requests[r].session_id] = 0

\* C8: when the install exchange of create_session ends with status error,
\* create_session raises, the session has no registry entry and no kernel
\* entry, and stop_kernel was called for it once, with the entry there.
C8_InstallErrorRollsBack ==
    /\ (Returned /\ done.caller = "create_session" /\ done.result.status = "error")
           => <<"create_session", done.kernel_id, "ValueError">> \in raised
    /\ \A s \in Sessions :
           <<"create_session", s, "ValueError">> \in raised
           => /\ s \notin DOMAIN sessions
              /\ s \notin kernels
              /\ stopCalls[s] = 1
              /\ teardowns[s] = 1

\* C8, its case: an install exchange ended by an error message
C8_Witness ==
    /\ Returned
    /\ done.caller = "create_session"
    /\ done.result.status = "error"
    /\ done.result.error.kind = "dict"
    /\ <<"create_session", done.kernel_id, "ValueError">> \in raised

\* C9: a create_session that raised left nothing behind: no registry entry,
\* no kernel entry, no container created or running, neither descriptor
\* file.
C9_FailedCreateLeavesNothing ==
    \A x \in raised :
        x[1] = "create_session"
        => /\ x[2] \notin DOMAIN sessions
           /\ x[2] \notin kernels
           /\ container[x[2]] \notin {"created", "running"}
           /\ ConnectionFile(x[2]) \notin files
           /\ ClientFile(x[2]) \notin files

\* C10: cleanup_session is idempotent: from any state between two handlers,
\* a second cleanup_session of the same id changes nothing that the first
\* left, whatever steps raise in either, and a cleanup_session of an id that
\* is not registered changes nothing: no stop_kernel call, no teardown.
C10_CleanupIdempotent ==
    LoopFree =>
        \A s \in Sessions : \A f1 \in Faults, f2 \in Faults :
            LET once == Cleanup(sessions, World, s, f1)
                twice == Cleanup(once.sessions, once.world, s, f2)
            IN /\ twice = once
               /\ s \notin DOMAIN once.sessions
               /\ s \notin DOMAIN sessions
                      => once = [sessions |-> sessions, world |-> World]

\* C10, its case: a registered session was cleaned up, its teardown ran
\* once, and a further cleanup_session of it is enabled
C10_Witness ==
    \E s \in usedIds :
        /\ LoopFree
        /\ s \notin DOMAIN sessions
        /\ teardowns[s] = 1
        /\ stopCalls[s] = 1
        /\ \A x \in raised : x[2] # s

\* create_session returned the id s: uuid4 gave it, its handler has ended and
\* it did not raise
Created(s) ==
    /\ s \in usedIds
    /\ \A m \in DOMAIN exch : exch[m].kernel_id # s
    /\ \A x \in raised : ~(x[1] = "create_session" /\ x[2] = s)

\* C11: the registry is the set of ids create_session returned that were
\* not cleaned up since; the kernel of a registered session is live and was
\* never torn down; the kernel of a created session that is no longer
\* registered was torn down once, by the one stop_kernel call made for it;
\* and cleanup_session of a registered session removes it from the registry
\* and tears its kernel down, leaving the other sessions as they are.
C11_RegistryIsLiveSessions ==
    /\ \A s \in DOMAIN sessions : Created(s)
    /\ \A s \in Sessions :
           Created(s) =>
               /\ teardowns[s] <= 1
               /\ stopCalls[s] = teardowns[s]
               /\ (s \in DOMAIN sessions) <=> (teardowns[s] = 0)
               /\ (s \in DOMAIN sessions) => (s \in kernels)
               /\ (s \notin DOMAIN sessions) => (s \notin kernels)
    /\ LoopFree =>
           \A s \in DOMAIN sessions : \A f \in Faults :
               LET c == Cleanup(sessions, World, s, f)
               IN /\ c.sessions = Del(sessions, s)
                  /\ c.world.teardowns = [teardowns EXCEPT ![s] = 1]
                  /\ c.world.kernels = kernels \ {s}

\* C11, its case: two sessions were created, one of them was cleaned up and
\* its kernel torn down once, the other is still registered
C11_Witness ==
    \E s \in Sessions, t \in Sessions :
        /\ s # t
        /\ Created(s) /\ Created(t)
        /\ s \notin DOMAIN sessions
        /\ teardowns[s] = 1
        /\ DOMAIN sessions = {t}
        /\ teardowns[t] = 0

\* a step stores a request only for a session that is in the registry, and
\* stores it in state initializing
C12_Step ==
    \A r \in DOMAIN requests' \ DOMAIN requests :
        /\ requests'[r].session_id \in DOMAIN sessions
        /\ requests'[r].status = "initializing"

\* C12: create_execution_request stores a request, in state initializing,
\* only when the session it names is in the registry; for a session never
\* created or already cleaned up it raises and stores nothing.
C12_UnknownSessionRejected == [][C12_Step]_vars

\* the place of a status in the lifecycle
LifecycleRank(st) ==
    CASE st = "initializing" -> 0
      [] st = "running" -> 1
      [] st \in {"completed", "failed", "error"} -> 2
      [] OTHER -> 3

C13_Step ==
    \A r \in DOMAIN requests :
        LET before == GetStatus(requests, results, r)
            after == GetStatus(requests', results', r)
        IN /\ LifecycleRank(before) <= 2
           /\ LifecycleRank(after) <= 2
           /\ LifecycleRank(before) <= LifecycleRank(after)
           /\ LifecycleRank(before) = 2 => after = before

\* C13: the status get_execution_status reports for a request only moves
\* forward along initializing, running, {completed, failed, error}: no step
\* takes it back, and once it is terminal no step changes it, a repeated
\* execute_code of the request included.
C13_StatusForwardOnly == [][C13_Step]_vars

\* C14: a result is immutable once written: a step leaves every stored
\* result as it is, a second execute_code of its request and the cleanup of
\* its session included.
C14_ResultImmutable ==
    [][\A r \in DOMAIN results : r \in DOMAIN results' /\ results'[r] = results[r]]_vars

\* every step attempted once, in order, nothing raised
FullAttempt == [attempted |-> TeardownOrder, exc |-> "none"]

\* C15: stop_kernel on a registered kernel attempts each of the five
\* teardown steps once, whatever subset of them raises, raises nothing
\* itself and removes the kernel entry: so did every stop_kernel that found
\* an entry, and so does stop_kernel of any registered kernel from here.
C15_TeardownBestEffort ==
    /\ \A s \in Sessions :
           teardowns[s] >= 1 => (attempts[s] = FullAttempt /\ s \notin kernels)
    /\ \A s \in kernels : \A fails \in SUBSET TeardownSteps :
           LET w == StopKernel(World, s, fails)
           IN /\ w.attempts[s] = FullAttempt
              /\ s \notin w.kernels
              /\ w.teardowns[s] = teardowns[s] + 1

\* C15, its case: a stop_kernel in which every step raised: the channel is
\* still started, the container still runs, both files are still there, and
\* the entry is gone
C15_Witness ==
    \E s \in Sessions :
        /\ teardowns[s] = 1
        /\ attempts[s] = FullAttempt
        /\ s \notin kernels
        /\ s \in channels
        /\ container[s] = "running"
        /\ {ConnectionFile(s), ClientFile(s)} \subseteq files

\* the startup errors start_kernel can raise
StartupErrors == {StartupError(st) : st \in {"created", "running", "exited"}}

\* C16: start_kernel raises the startup error exactly when no status
\* refresh it made returned running: no startup error reports the status
\* running, which the last refresh then returned, and a start_kernel that
\* raised the startup error removed the container and registered no entry.
C16_StartupErrorIffNeverRunning ==
    \A x \in raised :
        x[1] = "create_session" =>
            /\ x[3] # StartupError("running")
            /\ x[3] \in StartupErrors
                   => (container[x[2]] = "removed" /\ x[2] \notin kernels)

\* what start_kernel raises when the channel does not get ready: the error
\* it makes of wait_for_ready's RuntimeError, or any other exception of
\* start_channels and wait_for_ready, as it is
ReadyErrors == {"RuntimeError: Kernel failed to start", "Exception"}

\* the kernel of id is torn down: no entry, channel stopped, container
\* removed, both descriptor files deleted
TornDown(id) ==
    /\ id \notin kernels
    /\ id \notin channels
    /\ container[id] = "removed"
    /\ ConnectionFile(id) \notin files
    /\ ClientFile(id) \notin files

\* C17: a start_kernel that failed because the channel could not be opened
\* or did not get ready, by the timeout of the wait or by any other error,
\* has torn everything down before it raised, the teardown steps working.
C17_ReadyFailureTearsDown ==
    \A x \in raised :
        (x[1] = "start_kernel" /\ x[3] \in ReadyErrors) => TornDown(x[2])

\* the volume of host path h in vols is the bind of the mount point mp
IsBindOf(vols, mp) ==
    /\ <<"host", mp.host_path>> \in DOMAIN vols
    /\ vols[<<"host", mp.host_path>>].bind = mp.container_path
    /\ vols[<<"host", mp.host_path>>].mode = IF mp.read_only THEN "ro" ELSE "rw"

AtOrUnder(path, dir) ==
    Len(dir) <= Len(path) /\ SubSeq(path, 1, Len(dir)) = dir

\* the denied directories of the host side and of the container side
HostDenied ==
    {<<"etc">>, <<"var">>, <<"bin">>, <<"sbin">>, <<"boot">>, <<"dev">>, <<"proc">>,
     <<"sys">>}
ContainerDenied == {<<"etc">>, <<"var", "run">>, <<"proc">>, <<"sys">>}

\* C19: a MountPoint is accepted only if its host path exists and neither
\* its host path nor its container path, once normalized, lies at or under
\* a denied directory of its side, a path that only shares a string prefix
\* with a denied directory not being under it.
C19_AcceptedMountIsOutsideDenied ==
    (checked.op = "MountPoint" /\ checked.outcome.accepted) =>
        /\ checked.exists
        /\ checked.absolute
        /\ \A d \in HostDenied : ~AtOrUnder(NormPath(checked.host_path), d)
        /\ \A d \in ContainerDenied : ~AtOrUnder(NormPath(checked.container_path), d)

\* "all" is in the disabled-rules list of the validation made
AllDisabled == checked.disabled.kind # "none" /\ "all" \in checked.disabled.items

\* C20, as stated: with "all" in the disabled-rules list every code string
\* is accepted: validate_code of the factory's validator returns valid with
\* the message of a passed validation, and ExecutionRequest is constructed
\* with the code as given; nothing is raised.
C20_AllAcceptsEveryCode ==
    /\ (checked.op = "validate_code" /\ AllDisabled) =>
           /\ checked.outcome.raises = "none"
           /\ checked.outcome.valid
           /\ checked.outcome.message = <<<<"Code validation passed", "">>>>
    /\ (checked.op = "ExecutionRequest" /\ AllDisabled) =>
           /\ checked.outcome.raises = "none"
           /\ checked.outcome.code = checked.code

\* C20, amended: with "all" in the disabled-rules list the factory's
\* validator accepts every code string, of any length, and ExecutionRequest
\* is constructed with the code as given for every code string of at most
\* max_length characters.
C20_AllAcceptsWithinMaxLength ==
    /\ (checked.op = "validate_code" /\ AllDisabled) =>
           /\ checked.outcome.raises = "none"
           /\ checked.outcome.valid
           /\ checked.outcome.message = <<<<"Code validation passed", "">>>>
    /\ (checked.op = "ExecutionRequest" /\ AllDisabled /\ checked.pad <= max_length) =>
           /\ checked.outcome.raises = "none"
           /\ checked.outcome.code = checked.code

\* the code of the tests: a forbidden import, a forbidden call and a shell
\* command that is not allowed
DangerousCode == Code(<<"import sys", "eval('2+2')", "!rm -rf /">>)

\* C20, its case: an ExecutionRequest is constructed with "all" disabled
\* from the code with a forbidden import, a forbidden call and a disallowed
\* shell command together, which the validator with every rule enabled
\* rejects on three rules
C20_Witness ==
    /\ checked.op = "ExecutionRequest"
    /\ AllDisabled
    /\ checked.code = DangerousCode
    /\ checked.pad <= max_length
    /\ checked.outcome.raises = "none"
    /\ Len(ValidateCode(NewValidator, DangerousCode).message) = 3

RECURSIVE LastNaming(_, _)
\* the last enable_rule or disable_rule call of a log that names a rule:
\* its operation, or "none"
LastNaming(log, r) ==
    IF log = <<>> THEN "none"
    ELSE LET c == log[Len(log)]
         IN IF c.op \in {"enable_rule", "disable_rule"} /\ c.name = r THEN c.op
            ELSE LastNaming(SubSeq(log, 1, Len(log) - 1), r)

\* the flags the calls of a log leave: a rule is enabled unless the last call
\* naming it disabled it
FlagsAfter(log) == [r \in RuleSet |-> LastNaming(log, r) # "disable_rule"]

\* C21: after any sequence of enable_rule and disable_rule calls each rule
\* is enabled iff the last call naming it was enable_rule or no call named
\* it (so a call changes no flag but that of the rule it names, and a call
\* with an unknown name changes none); no such call raises; and every
\* validate_code call returns what validation under the flags current at
\* the call returns.
C21_FlagsFollowLastCall ==
    /\ validator.rules = FlagsAfter(validator.log)
    /\ \A i \in 1..Len(validator.log) :
           LET c == validator.log[i]
           IN IF c.op = "validate_code"
              THEN c.out = ValidateCode(FlagsAfter(SubSeq(validator.log, 1, i - 1)), c.code)
              ELSE c.out.raises = "none"

\* C21, its case: dangerous_imports is disabled and `import sys` accepted,
\* an unknown rule is named, and with the rule enabled again the same code
\* is rejected, every other rule being enabled throughout
C21_Witness ==
    /\ Len(validator.log) = 5
    /\ validator.log[1].op = "disable_rule"
    /\ validator.log[1].name = "dangerous_imports"
    /\ validator.log[2].op = "validate_code"
    /\ validator.log[2].code = Code(<<"import sys">>)
    /\ validator.log[2].out.valid
    /\ validator.log[3].name = "no_such_rule"
    /\ validator.log[4].op = "enable_rule"
    /\ validator.log[4].name = "dangerous_imports"
    /\ validator.log[5].op = "validate_code"
    /\ validator.log[5].code = Code(<<"import sys">>)
    /\ ~validator.log[5].out.valid
    /\ validator.rules = NewValidator


\* the rules enabled in v that fail on code, in the order of the rules
FailingRules(v, code) ==
    SelectSeq(RuleNames, LAMBDA r : v[r] /\ ~RunRule(r, code).ok)

\* C22: validate_code rejects iff at least one enabled rule fails on its
\* input, and then the reason is the reasons of the failing enabled rules,
\* one for each, in the order of the rules; it accepts otherwise.
C22_RejectsIffEnabledRuleFails ==
    checked.op = "validate_code" =>
        LET failing == FailingRules(CreateValidator(checked.disabled), checked.code)
        IN /\ checked.outcome.raises = "none"
           /\ checked.outcome.valid <=> failing = <<>>
           /\ ~checked.outcome.valid =>
                  checked.outcome.message =
                      [i \in 1..Len(failing) |-> RunRule(failing[i], checked.code).msg]

\* the denylisted root modules the plain lines of a code string import
DeniedImports(code) ==
    {m \in forbidden_modules :
        \E i \in 1..Len(code) :
            /\ ~code[i].jupyter
            /\ \E k \in 1..Len(code[i].imports) : code[i].imports[k] = m}

\* C23: with dangerous_imports enabled, code with an import of a denylisted
\* root module on a plain line is rejected, and the reason has the name of
\* such a module, whatever shell and magic lines are around it.
C23_DeniedImportRejected ==
    (/\ checked.op = "validate_code"
     /\ CreateValidator(checked.disabled)["dangerous_imports"]
     /\ DeniedImports(checked.code) # {}) =>
        /\ checked.outcome.raises = "none"
        /\ ~checked.outcome.valid
        /\ \E i \in 1..Len(checked.outcome.message) :
               checked.outcome.message[i][2] \in DeniedImports(checked.code)

\* `import os`, alone and after an allowed pip install line
ImportOsCodes == {Code(<<"import os">>), Code(<<"!pip install requests", "import os">>)}

\* C24: on a validator that starts with every rule enabled, `import os`
\* (alone or after an allowed `!pip install` line) is rejected with a
\* "Forbidden import" reason whenever dangerous_imports is enabled at the
\* call, at the start as after enable_rule, and accepted whenever the rule
\* is disabled at the call.
C24_ImportOsFollowsRule ==
    \A i \in 1..Len(validator.log) :
        LET c == validator.log[i]
        IN (c.op = "validate_code" /\ c.code \in ImportOsCodes) =>
               IF FlagsAfter(SubSeq(validator.log, 1, i - 1))["dangerous_imports"]
               THEN /\ c.out.raises = "none"
                    /\ ~c.out.valid
                    /\ \E k \in 1..Len(c.out.message) :
                           c.out.message[k][1] = "Forbidden import"
               ELSE c.out.raises = "none" /\ c.out.valid


\* the first words after "!" of the shell lines of a code string that are
\* not allowed commands
Offending(code) ==
    {code[i].command : i \in {k \in 1..Len(code) :
        /\ code[k].bang
        /\ code[k].command # ""
        /\ code[k].command \notin allowed_shell_commands}}

\* a line is an allowed shell command that installs no blocked package, or
\* plain code that parses and has no forbidden call, import or pattern
SafeLine(l) ==
    LET f == l
    IN IF f.bang
       THEN /\ f.command \in allowed_shell_commands
            /\ \A k \in 1..Len(f.words) : Lower(f.words[k].name) \notin blocked_packages
       ELSE /\ ~f.jupyter
            /\ f.syntax
            /\ ~f.dunder
            /\ Hits(f.calls, forbidden_builtins) = <<>>
            /\ Hits(f.imports, forbidden_modules) = <<>>

\* C25: with jupyter_commands enabled the shell rule fails iff some "!" line
\* has a first word that is not an allowed command, the reason naming such
\* a word: validation then rejects with that reason, and has no shell-command
\* reason otherwise; and code made only of allowed shell commands and safe
\* plain lines is accepted.
C25_ShellRuleByFirstWord ==
    (checked.op = "validate_code" /\ CreateValidator(checked.disabled)["jupyter_commands"]) =>
        LET shellReasons ==
                SelectSeq(checked.outcome.message,
                          LAMBDA m : m[1] = "Shell command not allowed")
        IN /\ checked.outcome.raises = "none"
           /\ IF Offending(checked.code) # {}
              THEN /\ ~checked.outcome.valid
                   /\ Len(shellReasons) = 1
                   /\ shellReasons[1][2] \in Offending(checked.code)
              ELSE shellReasons = <<>>
           /\ (/\ CreateValidator(checked.disabled) = NewValidator
               /\ \A i \in 1..Len(checked.code) : SafeLine(checked.code[i]))
                  => checked.outcome.valid

\* an install command, validated under the empty allow list, of the one
\* package p
InstallsOnly(p) ==
    /\ checked.op = "install"
    /\ checked.allowed_packages = {}
    /\ checked.packages = <<p>>

\* C26: an install command that pins a package with a registered minimum
\* version to an exact version is rejected iff the pinned version is below
\* the minimum, the package name being matched without regard to case.
C26_PinBelowMinimumRejected ==
    checked.op = "install" =>
        \A p \in PackagesTried :
            (/\ InstallsOnly(p)
             /\ Lower(p.name) \in DOMAIN allowed_versions
             /\ Len(p.spec) = 1
             /\ p.spec[1].op = "==") =>
                /\ checked.outcome.raises = "none"
                /\ ~checked.outcome.valid <=>
                       Less(p.spec[1].ver, allowed_versions[Lower(p.name)])

\* a name is a blocked name in some casing
DeniedName(n) == \E d \in blocked_packages : Lower(n) = Lower(d)

\* C27: an install command naming a package of the deny list, in any
\* casing and with any specifier, is rejected by the package rule, whatever
\* other packages it names and whatever the allow list has.
C27_DeniedPackageRejected ==
    (/\ checked.op = "install"
     /\ \E i \in 1..Len(checked.packages) : DeniedName(checked.packages[i].name)) =>
        /\ checked.rule.raises = "none"
        /\ ~checked.rule.ok

\* the releases a range is tried on
Releases == [1..3 -> {0, 1, 2, 8, 9, 10, 20, 22, 23}]

\* C28: an install command giving a package with a registered minimum
\* version a range specifier is rejected if the range admits a version below
\* the minimum and accepted if it admits none.
C28_RangeBelowMinimumRejected ==
    checked.op = "install" =>
        \A p \in PackagesTried :
            (/\ InstallsOnly(p)
             /\ p.name \in DOMAIN allowed_versions
             /\ p.spec # <<>>
             /\ \A i \in 1..Len(p.spec) : p.spec[i].op # "==" /\ IsVersion(p.spec[i].ver)) =>
                /\ checked.outcome.raises = "none"
                /\ ~checked.outcome.valid <=>
                       \E v \in Releases :
                           Contains(p.spec, v) /\ Less(v, allowed_versions[p.name])


\* C29: every protocol exchange terminates: when each read of the channel
\* returns or fails within its timeout, an exchange in flight leads to
\* KernelManager.execute_code returning for it a result whose status is
\* completed or error.
C29_ExchangeTerminates ==
    \A m \in 1..MaxExec :
        (m \in DOMAIN exch) ~>
            (/\ m \notin DOMAIN exch
             /\ done.msg_id = m
             /\ done.result.status \in {"completed", "error"})

\* C29, its case: an exchange that read a message that does not end it and
\* then found the channel empty has returned, with the timeout as its error
C29_Witness ==
    /\ done.msg_id \in 1..MaxExec
    /\ done.msg_id \notin DOMAIN exch
    /\ done.exc = "Empty"
    /\ done.log # <<>>
    /\ done.result.status = "error"

\* the session sid was torn down: its kernel went through stop_kernel and
\* the registry has no entry for it
StoppedAndGone(sid) == sid \notin DOMAIN sessions /\ teardowns[sid] > 0

Own(s) ==
    <<IF s \in DOMAIN sessions THEN <<sessions[s]>> ELSE <<>>,
      s \in kernels, container[s], volumes[s], s \in channels, iopub[s], shell[s],
      ConnectionFile(s) \in files, ClientFile(s) \in files>>

\* C31: a step changes what belongs to one session at most, and that session
\* is the one the operation is about: the id create_session drew, the
\* session of the exchange that returned, the session of the request whose
\* result was stored, the session cleanup_session removed.
C31_OtherSessionsUntouched ==
    [][\A s, t \in Sessions :
          s # t =>
            /\ Own(s)' = Own(s) \/ Own(t)' = Own(t)
            /\ s \in usedIds' \ usedIds => Own(t)' = Own(t)
            /\ (done' # done /\ done'.kernel_id = s) => Own(t)' = Own(t)
            /\ (s \in DOMAIN sessions /\ s \notin DOMAIN sessions') => Own(t)' = Own(t)
            /\ \A rid \in DOMAIN requests :
                   (requests[rid].session_id = s
                        /\ (requests'[rid] # requests[rid]
                                \/ (rid \in DOMAIN results) # (rid \in DOMAIN results')
                                \/ (rid \in DOMAIN results
                                        /\ results'[rid] # results[rid]))) =>
                      Own(t)' = Own(t)]_vars

\* C31, its case: a request ran on one session and that session was cleaned
\* up, while the other session is registered with its kernel, its running
\* container, its channel and both its descriptor files
C31_Witness ==
    \E s, t \in Sessions :
        /\ s # t
        /\ "r1" \in DOMAIN results
        /\ requests["r1"].session_id = s
        /\ results["r1"].status = "completed"
        /\ StoppedAndGone(s)
        /\ s \notin kernels
        /\ t \in DOMAIN sessions
        /\ t \in kernels
        /\ t \in channels
        /\ container[t] = "running"
        /\ {ConnectionFile(t), ClientFile(t)} \subseteq files

\* the message is one execute_code has no branch for, or a status other
\* than idle
Skipped(msg) ==
    /\ msg.msg_type \notin {"stream", "execute_result", "display_data", "error"}
    /\ ~IsIdle(msg)

\* C32: the turn of the loop that reads a message of a type outside
\* {status idle, stream, execute_result, display_data, error}, a status other
\* than idle included, leaves the result's outputs, status and error as they
\* were, and the exchange stays open to read the next message.
C32_OtherMessagesSkipped ==
    [][\A m \in DOMAIN exch :
          LET sid == exch[m].kernel_id
              read == \/ m \in DOMAIN exch' /\ exch'[m].log # exch[m].log
                      \/ m \notin DOMAIN exch' /\ done'.log # exch[m].log
          IN (read /\ iopub[sid] # <<>> /\ Skipped(Head(iopub[sid]))) =>
                /\ m \in DOMAIN exch'
                /\ exch'[m].log = Append(exch[m].log, Head(iopub[sid]))
                /\ exch'[m].result = exch[m].result]_vars

\* C32, its case: an exchange read a busy status, the echo of the code and
\* one stream output before the idle status, and returned the one output
C32_Witness ==
    /\ Returned
    /\ done.result.status = "completed"
    /\ Len(done.result.outputs) = 1
    /\ \E i, j \in 1..Len(done.log) :
           /\ done.log[i].msg_type = "execute_input"
           /\ done.log[j] = StatusMsg(done.msg_id, "busy")

\* the raw output yields a text Output: a stream, or a rendered value with a
\* text/plain representation
YieldsText(o) ==
    o.type = "stream"
        \/ (o.type \in {"execute_result", "display_data"} /\ "text/plain" \in DOMAIN o.data)

\* the raw output yields a file payload: a rendered value with an image
YieldsFile(o) ==
    o.type \in {"execute_result", "display_data"} /\ "image/png" \in DOMAIN o.data

\* the text Output of a raw output that yields one
TextOutput(o) ==
    IF o.type = "stream" THEN [type |-> "stream", content |-> o.text]
    ELSE [type |-> "result", content |-> o.data["text/plain"]]

\* C33: the result execute_code stores has the status and the error of the
\* exchange result; its output is, in the order of the raw outputs, one text
\* Output for each stream and for each rendered value that has text/plain;
\* its files are, in order, the image/png of each rendered value that has
\* one; nothing else of the raw outputs appears.
C33_ResultIsTranslation ==
    checked.op = "execute_code" =>
        LET raw == checked.raw.outputs
            texts == SelectSeq(raw, YieldsText)
            images == SelectSeq(raw, YieldsFile)
        IN /\ checked.stored.status = checked.raw.status
           /\ checked.stored.error = checked.raw.error
           /\ checked.stored.output = [i \in 1..Len(texts) |-> TextOutput(texts[i])]
           /\ checked.stored.files = [i \in 1..Len(images) |-> images[i].data["image/png"]]

\* C33, its case: a rendered value with an image and markup but no plain
\* text, followed by a stream, stored as one text Output and one file
C33_Witness ==
    /\ checked.op = "execute_code"
    /\ Len(checked.raw.outputs) = 2
    /\ checked.raw.outputs[1].type = "display_data"
    /\ DOMAIN checked.raw.outputs[1].data = {"image/png", "text/html"}
    /\ checked.raw.outputs[2].type = "stream"
    /\ Len(checked.stored.output) = 1
    /\ Len(checked.stored.files) = 1

\* C34: the step of execute_code that stores the result of a request on a
\* registered session sets that session's last_used to the time of the
\* step, whatever the result; no step lowers a last_used or changes a
\* created_at.
C34_EveryExecutionTouches ==
    [][/\ \A rid \in DOMAIN requests :
            LET sid == requests[rid].session_id
            IN (/\ sid \in DOMAIN sessions
                /\ rid \in DOMAIN results'
                /\ rid \notin DOMAIN results \/ results'[rid] # results[rid]) =>
                  /\ sid \in DOMAIN sessions'
                  /\ sessions'[sid].last_used = now'
                  /\ now' > now
       /\ \A sid \in DOMAIN sessions \cap DOMAIN sessions' :
            /\ sessions'[sid].last_used >= sessions[sid].last_used
            /\ sessions'[sid].created_at = sessions[sid].created_at]_vars

\* C35: once the shutdown hook or the atexit hook has run, the session
\* registry and the kernel registry are empty and every session the hook
\* found was torn down; and at any time, whichever of explicit cleanup,
\* shutdown hook and atexit hook came first, no session's kernel has been
\* torn down more than once.
C35_ShutdownDestroysAll ==
    /\ \A s \in Sessions : teardowns[s] <= 1
    /\ checked.op \in {"shutdown_event", "atexit"} =>
          /\ DOMAIN sessions = {}
          /\ kernels = {}
          /\ \A s \in checked.found : teardowns[s] = 1

\* C35, its case: of two sessions one was cleaned up by its own
\* cleanup_session after running a request, the other by the shutdown hook,
\* and the atexit hook that ran after it found no session
C35_Witness ==
    /\ checked.op = "atexit"
    /\ checked.after = {"shutdown_event"}
    /\ checked.found = {}
    /\ usedIds = Sessions
    /\ \A s \in Sessions : teardowns[s] = 1
    /\ "r1" \in DOMAIN results
    /\ results["r1"].status = "completed"

\* C36: the five ports of every descriptor are pairwise distinct, no
\* containers.run finds one of them held, and no two containers that run
\* have a port in common.
C36_PortsDistinctAndFree ==
    /\ \A s \in Sessions :
         /\ Cardinality(Range(net.probed[s])) = Len(net.probed[s])
         /\ net.run[s] # "port is already allocated"
    /\ \A s, t \in Sessions : s # t => net.bound[s] \cap net.bound[t] = {}

\* the step registers the session s
Registers(s) == s \notin DOMAIN sessions /\ s \in DOMAIN sessions'

\* C37: whenever no handler is running, the session registry and the kernel
\* registry hold the same ids, and at any time a registered session has its
\* kernel entry; the step that registers a session finds its kernel entry
\* and its started channel, and for a session with dependencies it is the
\* return of the install exchange with status completed; a step that removes
\* a kernel entry leaves no registry entry for it.
C37_RegistriesAgree ==
    /\ [](LoopFree => DOMAIN sessions = kernels)
    /\ [](DOMAIN sessions \subseteq kernels)
    /\ [][\A s \in Sessions :
            /\ Registers(s) =>
                  /\ s \in kernels'
                  /\ s \in channels'
                  /\ \A x \in raised' : ~(x[1] = "create_session" /\ x[2] = s)
                  /\ sessions'[s].dependencies # <<>> =>
                        /\ done' # done
                        /\ done'.kernel_id = s
                        /\ done'.caller = "create_session"
                        /\ done'.result.status = "completed"
            /\ (s \in kernels /\ s \notin kernels') => s \notin DOMAIN sessions']_vars

\* C37, its case: no handler is running; one session was registered after
\* its install exchange completed, the other creation failed at the install
\* and left neither a registry entry nor a kernel entry
C37_Witness ==
    /\ LoopFree
    /\ \E s, t \in Sessions :
          /\ s # t
          /\ DOMAIN sessions = {s}
          /\ kernels = {s}
          /\ sessions[s].dependencies # <<>>
          /\ t \in usedIds
          /\ <<"create_session", t, "ValueError">> \in raised
          /\ teardowns[t] = 1

\* C38: an invocation of the execute_code tool returns a list of contents
\* and raises nothing, and the session it created is registered no more and
\* has no kernel entry when it ends.
C38_ToolReturnsAndCleansUp ==
    checked.op = "mcp.execute_code" =>
        /\ checked.raises = "none"
        /\ checked.returns # <<>>
        /\ DOMAIN sessions = {}
        /\ kernels = {}

C40_VerdictOfRequestAlone ==
    \A i, j \in 1..Len(validator.log) :
        LET a == validator.log[i]
            b == validator.log[j]
        IN /\ (a.code = b.code /\ a.disabled = b.disabled) => a.out = b.out
           /\ a.disabled = NoneVal =>
                  a.out = [raises |-> "ValueError", code |-> <<>>]

\* C40, its case: a request is rejected, a request with the same code that
\* disables a rule is accepted after it, and the first request sent again
\* after that is rejected as before.
C40_Witness ==
    \E i, j, k \in 1..Len(validator.log) :
        /\ i < j /\ j < k
        /\ validator.log[i].code = validator.log[j].code
        /\ validator.log[i].code = validator.log[k].code
        /\ validator.log[i].disabled = NoneVal
        /\ validator.log[k].disabled = NoneVal
        /\ validator.log[j].disabled = [kind |-> "list", items |-> {"dangerous_imports"}]
        /\ validator.log[j].out.raises = "none"
        /\ validator.log[i].out.raises = "ValueError"
        /\ validator.log[k].out.raises = "ValueError"

====
